---- MODULE Spec2Model ----
(***************************************************************************)
(* A model of the conversation driver, rate limiter and file-edit toolset  *)
(* of llm-chat (src/claude_w_tools.py, src/utils/*.py).                     *)
(*                                                                         *)
(* Time is counted in whole seconds.  A file is a string; the file system  *)
(* maps normalised path strings to nodes.  Six specifications share the    *)
(* variables: SpecFiles calls the file edit operations directly, Spec runs *)
(* the client (main loop, prompt, rate limiter, tool dispatch), SpecRate   *)
(* runs it with the inputs that exercise the rate limiter, SpecBlocks with *)
(* responses made of blocks of every kind, SpecTools calls one file edit   *)
(* operation or the dispatcher on a file of any content, SpecConfig        *)
(* constructs a client from any arguments.                                 *)
(***************************************************************************)
EXTENDS Integers, Sequences, FiniteSets, TLC

VARIABLES
    fs,                  \* file system: normalised path -> [kind, data]
    backup_registry,     \* utils/undo_edit.py backup_registry: path -> backup path
    lastOp,              \* ghost: the last file edit operation called directly
    fs0,                 \* ghost: the file system at process start
    opLog,               \* ghost: the direct calls so far, each <<operation, path>>
    opCount,             \* ghost: number of direct operation calls so far
    message_history,     \* ClaudeClient.message_history
    last_api_call,       \* ClaudeClient.last_api_call
    token_usage_history, \* ClaudeClient.token_usage_history (front first)
    now,                 \* the wall clock, time.time()
    pc,                  \* where the single thread of control is
    topLevel,            \* "initial": the prompt of line 605, "loop": a prompt of the main loop
    turnInput,           \* the prompt argument of the running prompt() call
    kwargsMessages,      \* kwargs["messages"] of the running prompt() call
    response,            \* the response being processed
    nextId,              \* the next tool_use id the service hands out
    g,                   \* ghost record of the client (call times, counters, last error)
    injected_messages,   \* ClaudeClient.injected_messages, fixed at construction
    config               \* the arguments ClaudeClient was (or failed to be) constructed with

fileVars == <<fs, backup_registry>>
fileGhosts == <<lastOp, fs0, opLog, opCount>>
clientVars == <<message_history, last_api_call, token_usage_history, now, pc,
                topLevel, turnInput, kwargsMessages, response, nextId, g,
                injected_messages, config>>
vars == <<fs, backup_registry, lastOp, fs0, opLog, opCount, message_history,
          last_api_call, token_usage_history, now, pc, topLevel, turnInput,
          kwargsMessages, response, nextId, g,
          injected_messages, config>>

-----------------------------------------------------------------------------
(* Bounds of the model *)

\* direct file edit operation calls explored by SpecFiles
MaxOps == 3
\* outbound completion calls explored by Spec
MaxCalls == 3
\* outbound completion calls explored by SpecRate
MaxRateCalls == 4
\* longest file content (characters) an operation may write in the model
MaxFileLen == 6

\* direct calls in one run of SpecTools
MaxToolOps == 1

\* outbound calls of a run of SpecBlocks
MaxBlockCalls == 3

\* longest file a run of SpecTools may write
MaxToolFileLen == 14

\* greatest line number of the view ranges and insert positions of SpecTools
MaxLine == 6
\* the clock value at process start (seconds since the epoch, scaled down)
StartTime == 100

-----------------------------------------------------------------------------
(* Python string functions *)

Max(a, b) == IF a >= b THEN a ELSE b

Min(a, b) == IF a <= b THEN a ELSE b

\* s.startswith(t, i) with i counted from 1
MatchAt(s, t, i) ==
    /\ i >= 1
    /\ i + Len(t) - 1 <= Len(s)
    /\ SubSeq(s, i, i + Len(t) - 1) = t

\* s.endswith(t)
EndsWith(s, t) == Len(t) <= Len(s) /\ SubSeq(s, Len(s) - Len(t) + 1, Len(s)) = t

\* s.startswith(t)
StartsWith(s, t) == MatchAt(s, t, 1)

\* t in s
Contains(s, t) == \E i \in 1..(Len(s) + 1) : MatchAt(s, t, i)

\* a count that takes several occurrences for one
count_at_most_one(s, t) == IF Contains(s, t) THEN 1 ELSE 0

RECURSIVE CountFrom(_, _, _)
\* non-overlapping occurrences of t (non-empty) in s from position i, left to right
CountFrom(s, t, i) ==
    IF i + Len(t) - 1 > Len(s) THEN 0
    ELSE IF MatchAt(s, t, i) THEN 1 + CountFrom(s, t, i + Len(t))
    ELSE CountFrom(s, t, i + 1)

\* s.count(t) for a non-empty t
Count(s, t) == CountFrom(s, t, 1)

RECURSIVE ReplaceFrom(_, _, _, _)
ReplaceFrom(s, t, r, i) ==
    IF i > Len(s) THEN ""
    ELSE IF MatchAt(s, t, i) THEN r \o ReplaceFrom(s, t, r, i + Len(t))
    ELSE SubSeq(s, i, i) \o ReplaceFrom(s, t, r, i + 1)

\* s.replace(t, r) for a non-empty t
Replace(s, t, r) == ReplaceFrom(s, t, r, 1)

RECURSIVE ReadLinesFrom(_, _, _)
\* the lines of s from position i, the current line having started at position b
ReadLinesFrom(s, b, i) ==
    IF i > Len(s) THEN (IF b <= Len(s) THEN <<SubSeq(s, b, Len(s))>> ELSE <<>>)
    ELSE IF SubSeq(s, i, i) = "\n"
         THEN <<SubSeq(s, b, i)>> \o ReadLinesFrom(s, i + 1, i + 1)
         ELSE ReadLinesFrom(s, b, i + 1)

\* f.readlines(): the lines of s, each with its terminating newline
ReadLines(s) == ReadLinesFrom(s, 1, 1)

RECURSIVE JoinLines(_)
\* "".join(lines), what f.writelines(lines) writes
JoinLines(lines) ==
    IF lines = <<>> THEN "" ELSE Head(lines) \o JoinLines(Tail(lines))

RECURSIVE SplitFrom(_, _, _, _)
SplitFrom(s, sep, b, i) ==
    IF i > Len(s) THEN <<SubSeq(s, b, Len(s))>>
    ELSE IF SubSeq(s, i, i) = sep
         THEN <<SubSeq(s, b, i - 1)>> \o SplitFrom(s, sep, i + 1, i + 1)
         ELSE SplitFrom(s, sep, b, i + 1)

\* s.split(sep) for a one-character sep
Split(s, sep) == SplitFrom(s, sep, 1, 1)

Digit(d) == SubSeq("0123456789", d + 1, d + 1)

RECURSIVE ToStr(_)
\* str(n) / f"{n}" for a natural number n
ToStr(n) == IF n < 10 THEN Digit(n) ELSE ToStr(n \div 10) \o Digit(n % 10)

SeqToSet(q) == {q[i] : i \in 1..Len(q)}

-----------------------------------------------------------------------------
(* Paths and the file system *)

\* the path strings a caller or a tool call may name
Paths == {"a.html", "./a.html", "lib.pyc", "docs"}

RECURSIVE DropDots(_)
DropDots(parts) ==
    IF parts = <<>> THEN <<>>
    ELSE IF Head(parts) \in {"", "."} THEN DropDots(Tail(parts))
    ELSE <<Head(parts)>> \o DropDots(Tail(parts))

RECURSIVE JoinPath(_)
JoinPath(parts) ==
    IF parts = <<>> THEN "."
    ELSE IF Len(parts) = 1 THEN Head(parts)
    ELSE Head(parts) \o "/" \o JoinPath(Tail(parts))

\* os.path.normpath(p).replace('\\', '/') for a relative path without "..":
\* empty and "." components are dropped
NormPath(p) == JoinPath(DropDots(Split(p, "/")))

\* os.path.basename
BaseName(p) == LET parts == Split(p, "/") IN parts[Len(parts)]

\* the backup path f"{file_path}.backup"
BackupPath(p) == p \o ".backup"

\* every path string the operations of the model hand to the operating system
PathStrings == Paths \cup {BackupPath(p) : p \in Paths}

\* the file a path string names: its normalised form (computed once per string)
FileOf == [p \in PathStrings |-> NormPath(p)]

\* the files the operating system can tell apart among the paths of the model
FsKeys == {FileOf[p] : p \in PathStrings}

NoNode == [kind |-> "none", data |-> ""]

FileNode(text) == [kind |-> "file", data |-> text]

DirNode == [kind |-> "dir", data |-> ""]

\* os.path.exists
Exists(f, p) == f[FileOf[p]].kind # "none"

\* os.path.isfile
IsFile(f, p) == f[FileOf[p]].kind = "file"

\* os.path.isdir
IsDir(f, p) == f[FileOf[p]].kind = "dir"

\* the content open(p).read() returns
ReadFile(f, p) == f[FileOf[p]].data

\* open(p, 'w').write(text)
WriteFile(f, p, text) == [f EXCEPT ![FileOf[p]] = FileNode(text)]

\* os.path.getsize, the alphabet of the model being one byte per character
GetSize(f, p) == Len(ReadFile(f, p))

-----------------------------------------------------------------------------
(* utils/undo_edit.py: the backup store *)

BACKUP_EXCLUDE_PATTERNS ==
    <<".venv/", "__pycache__/", "node_modules/", ".git/", ".pytest_cache/",
      ".mypy_cache/", "*.pyc", "*.pyo", "*.pyd", "*.so", "*.dll", "*.backup">>

\* whether one exclusion pattern matches the normalised path
PatternExcludes(pattern, normalized_path) ==
    IF EndsWith(pattern, "/")
    THEN SubSeq(pattern, 1, Len(pattern) - 1) \in SeqToSet(Split(normalized_path, "/"))
    ELSE IF Contains(pattern, "*")
    THEN \* fnmatch with a pattern of the form *suffix
         EndsWith(BaseName(normalized_path), SubSeq(pattern, 2, Len(pattern)))
    ELSE Contains(normalized_path, pattern)

\* should_backup_file, computed from the patterns
ShouldBackup(file_path) ==
    LET normalized_path == NormPath(file_path)
    IN  \A i \in 1..Len(BACKUP_EXCLUDE_PATTERNS) :
            ~PatternExcludes(BACKUP_EXCLUDE_PATTERNS[i], normalized_path)

\* its value for every path string of the model (computed once per string)
ShouldBackupOf == [p \in PathStrings |-> ShouldBackup(p)]

should_backup_file(file_path) == ShouldBackupOf[file_path]

\* backup_file: (file system after, backup_path or "" for None, success)
backup_file(f, file_path) ==
    IF ~should_backup_file(file_path)
    THEN [fs |-> f, backup_path |-> "", success |-> TRUE]
    ELSE IF ~Exists(f, file_path)
    THEN [fs |-> f, backup_path |-> "", success |-> TRUE]
    ELSE IF ~IsFile(f, file_path)
    THEN [fs |-> f, backup_path |-> "", success |-> FALSE]
    ELSE [fs |-> WriteFile(f, BackupPath(file_path), ReadFile(f, file_path)),
          backup_path |-> BackupPath(file_path), success |-> TRUE]

\* a register_for_backup that copies on every call, registered or not
register_always_copies(f, reg, file_path) ==
    LET b == backup_file(f, file_path)
    IN  IF b.success /\ b.backup_path # ""
        THEN [fs |-> b.fs, reg |-> (file_path :> b.backup_path) @@ reg, ret |-> TRUE]
        ELSE [fs |-> b.fs, reg |-> reg, ret |-> FALSE]

\* register_for_backup: (file system after, registry after, returned bool)
register_for_backup(f, reg, file_path) ==
    IF file_path \notin DOMAIN reg
    THEN LET b == backup_file(f, file_path)
         IN  IF b.success /\ b.backup_path # ""
             THEN [fs |-> b.fs, reg |-> (file_path :> b.backup_path) @@ reg, ret |-> TRUE]
             ELSE [fs |-> b.fs, reg |-> reg, ret |-> FALSE]
    ELSE [fs |-> f, reg |-> reg, ret |-> FALSE]

\* the result of a file edit operation: the state it leaves and (message, error_occurred)
Result(f, reg, msg, is_error) ==
    [fs |-> f, reg |-> reg, msg |-> msg, is_error |-> is_error, raised |-> ""]

\* an operation left by an exception nothing in it catches
Raises(f, reg, exception) ==
    [fs |-> f, reg |-> reg, msg |-> "", is_error |-> TRUE, raised |-> exception]

\* an undo_edit that uses the backup up: it deletes p.backup and takes p out of
\* the registry once it has restored p
undo_edit_consuming_backup(f, reg, file_path) ==
    IF ~Exists(f, file_path) \/ ~Exists(f, BackupPath(file_path)) \/ IsDir(f, file_path)
    THEN Result(f, reg, "Error: '" \o file_path \o "' cannot be restored", TRUE)
    ELSE Result([WriteFile(f, file_path, ReadFile(f, BackupPath(file_path)))
                    EXCEPT ![FileOf[BackupPath(file_path)]] = NoNode],
                [q \in DOMAIN reg \ {file_path} |-> reg[q]],
                "File '" \o file_path \o "' successfully restored from backup.", FALSE)

\* undo_edit
undo_edit(f, reg, file_path) ==
    IF ~Exists(f, file_path)
    THEN Result(f, reg, "Error: File '" \o file_path \o "' does not exist", TRUE)
    ELSE IF ~Exists(f, BackupPath(file_path))
    THEN Result(f, reg, "Error: No backup found for '" \o file_path \o "'", TRUE)
    ELSE IF IsDir(f, file_path)
    THEN \* open(file_path, 'wb') raises IsADirectoryError, caught at line 133
         Result(f, reg, "Error restoring file from backup: [Errno 21] Is a directory: '"
                         \o file_path \o "'", TRUE)
    ELSE Result(WriteFile(f, file_path, ReadFile(f, BackupPath(file_path))), reg,
                "File '" \o file_path \o "' successfully restored from backup.", FALSE)

-----------------------------------------------------------------------------
(* utils/verify_changes.py *)

\* verify_changes: [msg, err].  The paths of the model end in neither .py nor
\* .json, so the two parser branches (lines 34-62) are never taken and are left out.
verify_changes(f, file_path) ==
    IF ~Exists(f, file_path)
    THEN [msg |-> "Verification failed: File '" \o file_path \o "' does not exist",
          err |-> TRUE]
    ELSE IF ~IsFile(f, file_path)
    THEN [msg |-> "Verification failed: '" \o file_path \o "' is not a file", err |-> TRUE]
    ELSE LET content == ReadFile(f, file_path)
             file_size == GetSize(f, file_path)
         IN  IF EndsWith(file_path, ".html") \/ EndsWith(file_path, ".htm")
             THEN IF Count(content, "<") # Count(content, ">")
                  THEN [msg |-> "Verification warning: HTML tags might be unbalanced (found "
                                \o ToStr(Count(content, "<")) \o " opening tags and "
                                \o ToStr(Count(content, ">")) \o " closing tags). File size: "
                                \o ToStr(file_size) \o " bytes.",
                        err |-> TRUE]
                  ELSE [msg |-> "Verification successful: Basic HTML check passed. File size: "
                                \o ToStr(file_size) \o " bytes.",
                        err |-> FALSE]
             ELSE [msg |-> "Verification successful: File is readable. Contains "
                           \o ToStr(Len(ReadLines(content))) \o " lines, size: "
                           \o ToStr(file_size) \o " bytes.",
                   err |-> FALSE]

-----------------------------------------------------------------------------
(* utils/create_file.py *)

\* a create_file that writes over an existing file whatever overwrite says
create_file_always_overwriting(f, reg, file_path, file_text, overwrite) ==
    IF Exists(f, file_path) /\ IsDir(f, file_path)
    THEN Result(f, reg, "Error: Cannot create file '" \o file_path
                        \o "' because a directory with that name already exists", TRUE)
    ELSE Result(WriteFile(f, file_path, file_text), reg,
                "File '" \o file_path \o "' created successfully.", FALSE)

\* a create_file that puts the old node back when the verification flags the
\* new content
create_file_reverting(f, reg, file_path, file_text, overwrite) ==
    IF Exists(f, file_path) /\ (IsDir(f, file_path) \/ ~overwrite)
    THEN Result(f, reg, "Error: File '" \o file_path \o "' cannot be written", TRUE)
    ELSE LET written == WriteFile(f, file_path, file_text)
             v == verify_changes(written, file_path)
         IN  Result(IF v.err THEN f ELSE written, reg,
                    "File '" \o file_path \o "' created successfully.\n" \o v.msg, v.err)

\* create_file.  Every path of the model lies in the working directory, whose
\* parent directory exists (lines 35-47 do nothing).
create_file(f, reg, file_path, file_text, overwrite) ==
    IF Exists(f, file_path) /\ IsDir(f, file_path)
    THEN Result(f, reg, "Error: Cannot create file '" \o file_path
                        \o "' because a directory with that name already exists", TRUE)
    ELSE IF Exists(f, file_path) /\ ~overwrite
    THEN Result(f, reg, "Error: File '" \o file_path
                        \o "' already exists. Set overwrite=True to replace it.", TRUE)
    ELSE LET written == WriteFile(f, file_path, file_text)
             v == verify_changes(written, file_path)
             action == IF Exists(written, file_path) /\ overwrite THEN "updated" ELSE "created"
         IN  Result(written, reg,
                    "File '" \o file_path \o "' " \o action \o " successfully.\n" \o v.msg,
                    v.err)

-----------------------------------------------------------------------------
(* utils/str_replace.py *)

\* s.find("\n", start) with Python's 0-based indices; -1 when there is none
FindNewline(s, start) ==
    LET from == IF start < 0 THEN Max(0, Len(s) + start) ELSE start
        hits == {i \in from..(Len(s) - 1) : SubSeq(s, i + 1, i + 1) = "\n"}
    IN  IF hits = {} THEN -1 ELSE CHOOSE i \in hits : \A j \in hits : i <= j

\* s.rfind("\n", 0, end) with Python's 0-based indices (a negative end counts
\* from the end of s); -1 when there is none
RFindNewline(s, end) ==
    LET upto == IF end < 0 THEN Max(0, Len(s) + end) ELSE Min(end, Len(s))
        hits == {i \in 0..(upto - 1) : SubSeq(s, i + 1, i + 1) = "\n"}
    IN  IF hits = {} THEN -1 ELSE CHOOSE i \in hits : \A j \in hits : i >= j

\* s.find(t, start) for start >= 0, 0-based; -1 when there is none
FindStr(s, t, start) ==
    LET hits == {i \in start..Len(s) : MatchAt(s, t, i + 1)}
    IN  IF hits = {} THEN -1 ELSE CHOOSE i \in hits : \A j \in hits : i <= j

\* one step of the loops of lines 75-79 and 87-91
StepBack(content, context_start) ==
    LET prev_newline == RFindNewline(content, context_start)
    IN  IF prev_newline = -1 THEN context_start ELSE prev_newline

StepForward(content, context_end) ==
    LET next_newline == FindNewline(content, context_end + 1)
    IN  IF next_newline = -1 THEN context_end ELSE next_newline

\* lines 70-97: the entry of the match at 0-based abs_pos, i being its 0-based number
MatchEntry(content, old_str, abs_pos, i) ==
    LET line_number == Count(SubSeq(content, 1, abs_pos), "\n") + 1
        s0 == RFindNewline(content, abs_pos)
        s2 == StepBack(content, StepBack(content, s0))
        context_start == IF s2 = -1 THEN 0 ELSE s2 + 1
        e0 == FindNewline(content, abs_pos + Len(old_str))
        e2 == StepForward(content, StepForward(content, e0))
        context_end == IF e2 = -1 THEN Len(content) ELSE e2
    IN  "Match #" \o ToStr(i + 1) \o " (line " \o ToStr(line_number) \o "):\n"
        \o SubSeq(content, context_start + 1, context_end)

RECURSIVE MatchInfo(_, _, _, _, _)
\* lines 62-101: "\n\n".join(match_info) from match number i on, searching from position
MatchInfo(content, old_str, matches, i, position) ==
    IF i >= matches THEN ""
    ELSE LET abs_pos == FindStr(content, old_str, position)
         IN  IF abs_pos = -1 THEN ""
             ELSE LET rest == MatchInfo(content, old_str, matches, i + 1,
                                        abs_pos + Len(old_str))
                  IN  MatchEntry(content, old_str, abs_pos, i)
                      \o (IF rest = "" THEN "" ELSE "\n\n" \o rest)

\* the body of str_replace (lines 24-139)
str_replace_body(f, reg, file_path, old_str, new_str) ==
    IF ~Exists(f, file_path)
    THEN Result(f, reg, "Error: File '" \o file_path \o "' does not exist", TRUE)
    ELSE IF ~IsFile(f, file_path)
    THEN Result(f, reg, "Error: '" \o file_path \o "' is not a file", TRUE)
    ELSE IF old_str = ""
    THEN Result(f, reg, "Error: 'old_str' cannot be empty", TRUE)
    ELSE LET content == ReadFile(f, file_path)
             matches == Count(content, old_str)
         IN  IF matches = 0
             THEN Result(f, reg,
                    "Error: No match found for replacement. Please check your text and try again.",
                    TRUE)
             ELSE IF matches > 1
             THEN Result(f, reg,
                    "Error: Found " \o ToStr(matches) \o " matches for replacement text. "
                    \o "Please provide more context to make a unique match.\n\n"
                    \o MatchInfo(content, old_str, matches, 0, 0), TRUE)
             ELSE LET new_content == Replace(content, old_str, new_str)
                      written == WriteFile(f, file_path, new_content)
                      v == verify_changes(written, file_path)
                  IN  Result(written, reg,
                        "Text replacement successful in '" \o file_path \o "' (size: "
                        \o ToStr(GetSize(written, file_path)) \o " bytes).\n" \o v.msg
                        \o "\n\n" \o new_content, v.err)

\* a str_replace that registers the backup only when it is about to write:
\* a call that its checks refuse registers nothing
str_replace_registering_late(f, reg, file_path, old_str, new_str) ==
    LET unregistered == str_replace_body(f, reg, file_path, old_str, new_str)
        r == register_for_backup(f, reg, file_path)
    IN  IF unregistered.fs = f
        THEN unregistered
        ELSE str_replace_body(r.fs, r.reg, file_path, old_str, new_str)

\* str_replace without the with_backup decorator
str_replace_unwrapped(f, reg, file_path, old_str, new_str) ==
    str_replace_body(f, reg, file_path, old_str, new_str)

\* @with_backup str_replace: register_for_backup, then the body
str_replace(f, reg, file_path, old_str, new_str) ==
    LET r == register_for_backup(f, reg, file_path)
    IN  str_replace_body(r.fs, r.reg, file_path, old_str, new_str)

-----------------------------------------------------------------------------
(* utils/insert_text.py *)

\* [''] * n
EmptyLines(n) == [i \in 1..n |-> ""]

\* list.insert(i, x) for 0 <= i <= len(list)
ListInsert(lines, i, x) == SubSeq(lines, 1, i) \o <<x>> \o SubSeq(lines, i + 1, Len(lines))

\* the body of insert_text (lines 24-100)
insert_text_body(f, reg, file_path, new_str, insert_line, preserve_newline) ==
    IF ~Exists(f, file_path)
    THEN Result(f, reg, "Error: File '" \o file_path \o "' does not exist", TRUE)
    ELSE IF ~IsFile(f, file_path)
    THEN Result(f, reg, "Error: '" \o file_path \o "' is not a file", TRUE)
    ELSE IF insert_line < 0
    THEN Result(f, reg, "Error: Insert line number (-" \o ToStr(0 - insert_line)
                        \o ") cannot be negative", TRUE)
    ELSE LET read == ReadLines(ReadFile(f, file_path))
             padded == IF insert_line > Len(read)
                       THEN read \o EmptyLines(insert_line - Len(read))
                       ELSE read
             text == IF preserve_newline /\ new_str # "" /\ ~EndsWith(new_str, "\n")
                     THEN new_str \o "\n"
                     ELSE new_str
             lines == ListInsert(padded, insert_line, text)
             position == IF insert_line = 0 THEN "beginning of file"
                         ELSE "after line " \o ToStr(insert_line)
         IN  Result(WriteFile(f, file_path, JoinLines(lines)), reg,
                    "Text inserted at " \o position \o " in '" \o file_path \o "' (now "
                    \o ToStr(Len(lines)) \o " lines total).", FALSE)

\* @with_backup insert_text: register_for_backup, then the body
insert_text(f, reg, file_path, new_str, insert_line, preserve_newline) ==
    LET r == register_for_backup(f, reg, file_path)
    IN  insert_text_body(r.fs, r.reg, file_path, new_str, insert_line, preserve_newline)

-----------------------------------------------------------------------------
(* utils/view_file.py, utils/view_directory.py *)

\* a view_range of None
NoRange == <<>>

\* a view that stops one line before the end of the range
view_file_end_exclusive(f, reg, file_path, view_range) ==
    IF ~IsFile(f, file_path) \/ Len(view_range) # 2
    THEN Result(f, reg, "Error: view_range must be a list of two integers", TRUE)
    ELSE LET all == ReadLines(ReadFile(f, file_path))
         IN  Result(f, reg,
                    JoinLines(SubSeq(all, Max(0, view_range[1] - 1) + 1,
                                     Min(view_range[2] - 1, Len(all)))),
                    FALSE)

\* view_file; view_range is NoRange or a list of integers.  No path of the model
\* lies inside a directory of the model, so os.listdir returns [].
view_file(f, reg, file_path, view_range) ==
    IF ~Exists(f, file_path)
    THEN Result(f, reg, "Error: Path '" \o file_path \o "' does not exist", TRUE)
    ELSE IF IsDir(f, file_path)
    THEN Result(f, reg, file_path \o ":\n", FALSE)
    ELSE LET range == IF view_range = NoRange THEN <<1, -1>> ELSE view_range
         IN  IF Len(range) # 2
             THEN Result(f, reg, "Error: view_range must be a list of two integers", TRUE)
             ELSE LET start == Max(0, range[1] - 1)
                      end == range[2]
                      all == ReadLines(ReadFile(f, file_path))
                      lines == IF end = -1 THEN all
                               ELSE SubSeq(all, start + 1, Min(end, Len(all)))
                  IN  Result(f, reg, JoinLines(lines), FALSE)

\* view_directory, for the (empty) directories of the model
view_directory(f, reg, dir_path, show_details) ==
    IF ~Exists(f, dir_path)
    THEN Result(f, reg, "Error: Path '" \o dir_path \o "' does not exist", TRUE)
    ELSE IF ~IsDir(f, dir_path)
    THEN Result(f, reg, "Error: '" \o dir_path \o "' is not a directory", TRUE)
    ELSE Result(f, reg, dir_path \o " (empty directory)", FALSE)

-----------------------------------------------------------------------------
(* claude_w_tools.py: ToolHandler *)

\* the input mapping of a tool call; a key the call leaves out holds the default
\* that params.get gives it ("" for command, path, old_str, new_str and file_text)
ToolInput(command, path) ==
    [command |-> command, path |-> path, old_str |-> "", new_str |-> "",
     file_text |-> "", overwrite |-> FALSE, insert_line |-> 0,
     preserve_newline |-> TRUE, view_range |-> NoRange, details |-> FALSE,
     null_path |-> FALSE]

\* the input of a tool call that gives "path": null, so that file_path is None
NullPathInput(command) == [ToolInput(command, "") EXCEPT !.null_path = TRUE]

_handle_view(f, reg, params, file_path) ==
    IF IsDir(f, file_path) THEN view_directory(f, reg, file_path, params.details)
    ELSE IF IsFile(f, file_path) THEN view_file(f, reg, file_path, params.view_range)
    ELSE Result(f, reg, "Error: '" \o file_path \o "' does not exist or is not accessible",
                TRUE)

\* a handler that hands every new_str to str_replace
handle_str_replace_unchecked(f, reg, params, file_path) ==
    str_replace(f, reg, file_path, params.old_str, params.new_str)

_handle_str_replace(f, reg, params, file_path) ==
    IF params.new_str = ""
    THEN Result(f, reg, "Error: 'new_str' is required", TRUE)
    ELSE str_replace(f, reg, file_path, params.old_str, params.new_str)

_handle_create(f, reg, params, file_path) ==
    create_file(f, reg, file_path, params.file_text, params.overwrite)

_handle_insert(f, reg, params, file_path) ==
    insert_text(f, reg, file_path, params.new_str, params.insert_line,
                params.preserve_newline)

_handle_undo_edit(f, reg, params, file_path) == undo_edit(f, reg, file_path)

\* what os.stat says of None
StatOfNone == "stat: path should be string, bytes, os.PathLike or integer, not NoneType"

\* the handlers with file_path None: os.path.isdir(None) (line 58) and
\* os.path.normpath(None) (register_for_backup, in the with_backup wrapper) raise
\* TypeError outside every try block; create_file and undo_edit catch it
handle_tool_path_none(f, reg, params) ==
    CASE params.command = "view" -> Raises(f, reg, "TypeError")
      [] params.command = "str_replace" ->
            IF params.new_str = ""
            THEN Result(f, reg, "Error: 'new_str' is required", TRUE)
            ELSE Raises(f, reg, "TypeError")
      [] params.command = "create" ->
            Result(f, reg, "Unexpected error creating file 'None': " \o StatOfNone, TRUE)
      [] params.command = "insert" -> Raises(f, reg, "TypeError")
      [] params.command = "undo_edit" ->
            Result(f, reg, "Unexpected error in undo_edit: " \o StatOfNone, TRUE)
      [] OTHER ->
            Result(f, reg, "Error: Unknown command '" \o params.command \o "'", TRUE)

\* a dispatcher that treats every command it does not know as undo_edit
handle_tool_defaulting_to_undo(f, reg, input_params) ==
    IF input_params.null_path THEN handle_tool_path_none(f, reg, input_params)
    ELSE CASE input_params.command = "view" ->
                _handle_view(f, reg, input_params, input_params.path)
           [] input_params.command = "str_replace" ->
                _handle_str_replace(f, reg, input_params, input_params.path)
           [] input_params.command = "create" ->
                _handle_create(f, reg, input_params, input_params.path)
           [] input_params.command = "insert" ->
                _handle_insert(f, reg, input_params, input_params.path)
           [] OTHER -> _handle_undo_edit(f, reg, input_params, input_params.path)

\* ToolHandler.handle_tool
handle_tool(f, reg, input_params) ==
    LET command == input_params.command
        file_path == input_params.path
    IN  CASE input_params.null_path -> handle_tool_path_none(f, reg, input_params)
          [] command = "view" -> _handle_view(f, reg, input_params, file_path)
          [] command = "str_replace" -> _handle_str_replace(f, reg, input_params, file_path)
          [] command = "create" -> _handle_create(f, reg, input_params, file_path)
          [] command = "insert" -> _handle_insert(f, reg, input_params, file_path)
          [] command = "undo_edit" -> _handle_undo_edit(f, reg, input_params, file_path)
          [] OTHER -> Result(f, reg, "Error: Unknown command '" \o command \o "'", TRUE)

-----------------------------------------------------------------------------
(* The file edit operations called directly: specification SpecFiles *)

\* the file systems a run may start from: a.html may exist, a backup of an
\* earlier run may lie beside it, lib.pyc is a build artifact, docs a directory
InitialFileSystems ==
    {[k \in FsKeys |->
        CASE k = "a.html" -> a
          [] k = "a.html.backup" -> b
          [] k = "lib.pyc" -> FileNode("ab\n")
          [] k = "docs" -> DirNode
          [] OTHER -> NoNode] :
     a \in {NoNode, FileNode("ab\na\n")}, b \in {NoNode, FileNode("old\n")}}

\* the paths the direct calls of each operation name
EditPaths == {"a.html", "./a.html", "lib.pyc"}

InsertPaths == {"a.html", "./a.html"}

CreatePaths == {"a.html", "docs"}

\* (old_str, new_str) pairs of the direct str_replace calls
ReplaceArgs == {<<"b", "c">>, <<"a", "<">>, <<"", "c">>}

\* (new_str, insert_line, preserve_newline) triples of the direct insert_text calls
InsertArgs == {<<"x", 0, TRUE>>, <<"y", 3, FALSE>>, <<"x", -1, TRUE>>}

\* file_text values of the direct create_file calls
CreateTexts == {"n\n", "<"}

NoOp == [op |-> "none", path |-> "", is_error |-> FALSE, msg |-> "", pre |-> NoNode,
         arg |-> FALSE, input |-> ToolInput("", ""), raised |-> ""]

\* how far the direct calls of a specification go: the number of calls and the
\* length of a file
FileLimits == [ops |-> MaxOps, len |-> MaxFileLen]

\* no file of the model grows beyond len
WithinFileBound(f, len) == \A k \in FsKeys : Len(f[k].data) <= len

\* the state change of one direct call: r is the operation's result, arg the
\* overwrite flag of create_file or the value register_for_backup returned,
\* input the arguments of the call
DirectCall(op, file_path, r, arg, input, limits) ==
    /\ opCount < limits.ops
    /\ WithinFileBound(r.fs, limits.len)
    /\ fs' = r.fs
    /\ backup_registry' = r.reg
    /\ lastOp' = [op |-> op, path |-> file_path, is_error |-> r.is_error, msg |-> r.msg,
                  pre |-> fs[FileOf[file_path]], arg |-> arg,
                  input |-> [input EXCEPT !.command = op, !.path = file_path],
                  raised |-> r.raised]
    /\ opLog' = Append(opLog, <<op, file_path>>)
    /\ opCount' = opCount + 1
    /\ UNCHANGED fs0
    /\ UNCHANGED clientVars

CallStrReplace(paths, args, limits) ==
    \E file_path \in paths, a \in args :
        DirectCall("str_replace", file_path,
                   str_replace(fs, backup_registry, file_path, a[1], a[2]), FALSE,
                   [NoOp.input EXCEPT !.old_str = a[1], !.new_str = a[2]], limits)

CallInsertText(paths, args, limits) ==
    \E file_path \in paths, a \in args :
        DirectCall("insert", file_path,
                   insert_text(fs, backup_registry, file_path, a[1], a[2], a[3]), FALSE,
                   [NoOp.input EXCEPT !.new_str = a[1], !.insert_line = a[2],
                                      !.preserve_newline = a[3]], limits)

CallCreateFile(paths, texts, limits) ==
    \E file_path \in paths, file_text \in texts, overwrite \in BOOLEAN :
        DirectCall("create", file_path,
                   create_file(fs, backup_registry, file_path, file_text, overwrite),
                   overwrite,
                   [NoOp.input EXCEPT !.file_text = file_text, !.overwrite = overwrite],
                   limits)

CallUndoEdit(paths, limits) ==
    \E file_path \in paths :
        DirectCall("undo_edit", file_path, undo_edit(fs, backup_registry, file_path), FALSE,
                   NoOp.input, limits)

CallViewFile(paths, ranges, limits) ==
    \E file_path \in paths, view_range \in ranges :
        DirectCall("view", file_path, view_file(fs, backup_registry, file_path, view_range),
                   FALSE, [NoOp.input EXCEPT !.view_range = view_range], limits)

\* ToolHandler.handle_tool called with one tool input: the call goes through
\* the dispatcher, and an exception no handler catches leaves it
CallHandleTool(inputs, limits) ==
    \E input_params \in inputs :
        LET r == handle_tool(fs, backup_registry, input_params)
        IN  /\ opCount < limits.ops
            /\ WithinFileBound(r.fs, limits.len)
            /\ fs' = r.fs
            /\ backup_registry' = r.reg
            /\ lastOp' = [op |-> "handle_tool", path |-> input_params.path,
                          is_error |-> r.is_error, msg |-> r.msg,
                          pre |-> IF input_params.null_path THEN NoNode
                                  ELSE fs[FileOf[input_params.path]],
                          arg |-> input_params.overwrite, input |-> input_params,
                          raised |-> r.raised]
            /\ opLog' = Append(opLog, <<input_params.command, input_params.path>>)
            /\ opCount' = opCount + 1
            /\ UNCHANGED fs0
            /\ UNCHANGED clientVars

CallRegisterForBackup ==
    \E file_path \in Paths :
        LET r == register_for_backup(fs, backup_registry, file_path)
        IN  DirectCall("register_for_backup", file_path, Result(r.fs, r.reg, "", FALSE),
                       r.ret, NoOp.input, FileLimits)

InitFiles ==
    /\ fs \in InitialFileSystems
    /\ fs0 = fs
    /\ backup_registry = << >>
    /\ lastOp = NoOp
    /\ opLog = << >>
    /\ opCount = 0

NextFiles ==
    \/ CallStrReplace(EditPaths, ReplaceArgs, FileLimits)
    \/ CallInsertText(InsertPaths, InsertArgs, FileLimits)
    \/ CallCreateFile(CreatePaths, CreateTexts, FileLimits)
    \/ CallUndoEdit(EditPaths, FileLimits)
    \/ CallRegisterForBackup

-----------------------------------------------------------------------------
(* One file edit operation called on a file of any content: specification   *)
(* SpecTools                                                                 *)

\* the contents a.html may have when the operation is called
ToolContents ==
    {"", "a", "a\n", "a\nb", "a\nb\n", "a\na\n", "a\nb\nc", "a\nb\nc\n", "<\n",
     "1\n2\n3\n4\n5\n"}

\* the file systems the operation may find: a.html may exist with any of the
\* contents, and a backup may lie beside it
ToolFileSystems ==
    {[k \in FsKeys |->
        CASE k = "a.html" -> a
          [] k = "a.html.backup" -> b
          [] k = "lib.pyc" -> FileNode("ab\n")
          [] k = "docs" -> DirNode
          [] OTHER -> NoNode] :
     a \in {NoNode} \cup {FileNode(c) : c \in ToolContents},
     b \in {NoNode, FileNode("old\n")}}

\* the view ranges: none, every [start, end] up to MaxLine, and a list too short
ViewRanges ==
    {NoRange, <<1>>} \cup {<<start, end>> : start \in 0..MaxLine, end \in (-1)..MaxLine}

\* a line number far beyond the end of every file of the model
FarLine == 10

\* (new_str, insert_line, preserve_newline) triples
ToolInsertArgs ==
    {"x", "x\n"} \X (((-1)..MaxLine) \cup {FarLine}) \X BOOLEAN

\* (old_str, new_str) pairs
ToolReplaceArgs ==
    {<<"a", "c">>, <<"b", "<">>, <<"", "c">>, <<"a\n", "">>, <<"c", "cc">>, <<"<", "<>">>}

ToolCreateTexts == {"n\n", "<", ""}

\* the operations that read lines are called on the file, the others on the
\* directory too
ToolFile == {"a.html"}

ToolPaths == {"a.html", "docs"}

ToolLimits == [ops |-> MaxToolOps, len |-> MaxToolFileLen]

\* command names the dispatcher does not know: a missing command (the default
\* ''), another name, and a known name in another case
UnknownCommands == {"", "rename", "View"}

\* the tool inputs handed to the dispatcher: unknown commands with a path, with
\* a null path, a str_replace with and without new_str (a missing new_str is
\* None, an empty one '': line 71 tests both with "not new_str"), and one call
\* of every known command
DispatchInputs ==
    {ToolInput(c, p) : c \in UnknownCommands, p \in ToolPaths}
    \cup {NullPathInput("rename"), NullPathInput("str_replace")}
    \cup {[ToolInput("str_replace", "a.html") EXCEPT !.old_str = "a", !.new_str = n] :
            n \in {"", "c"}}
    \cup {ToolInput("view", p) : p \in ToolPaths}
    \cup {[ToolInput("create", "a.html") EXCEPT !.file_text = "n\n", !.overwrite = TRUE],
          [ToolInput("insert", "a.html") EXCEPT !.new_str = "x", !.insert_line = 1],
          ToolInput("undo_edit", "a.html")}

InitToolFiles ==
    /\ fs \in ToolFileSystems
    /\ fs0 = fs
    /\ backup_registry = << >>
    /\ lastOp = NoOp
    /\ opLog = << >>
    /\ opCount = 0

NextTools ==
    \/ CallViewFile(ToolFile, ViewRanges, ToolLimits)
    \/ CallStrReplace(ToolFile, ToolReplaceArgs, ToolLimits)
    \/ CallInsertText(ToolFile, ToolInsertArgs, ToolLimits)
    \/ CallCreateFile(ToolPaths, ToolCreateTexts, ToolLimits)
    \/ CallUndoEdit(ToolPaths, ToolLimits)
    \/ CallHandleTool(DispatchInputs, ToolLimits)

-----------------------------------------------------------------------------
(* claude_w_tools.py: ClaudeClient configuration, as the main program builds it *)

DEFAULT_MAX_TOKENS == 2048 * 8

DEFAULT_COOLDOWN == 3

RATE_LIMIT_TOKENS == 20000

RATE_LIMIT_WINDOW == 60

\* the buffer for prompt tokens added to max_tokens in both estimates
PromptBuffer == 1000

\* the fallback sleep of _apply_rate_limit when no record exists
FallbackSleep == 1

\* the main loop's sleep after a RateLimitError
RateLimitBackoff == 10

\* line 105
DEFAULT_MODEL == "claude-3-7-sonnet-20250219"

\* line 115
THINKING_MODELS == {"claude-3-7-sonnet"}

\* line 118
TEXT_EDITOR_MODELS == {"claude-3-5-sonnet", "claude-3-7-sonnet"}

\* line 206: the least thinking budget other than 0
MinThinkingBudget == 1024

\* line 588: the thinking budget of the main program's client
MainThinkingBudget == 2048

max_tokens == DEFAULT_MAX_TOKENS

cooldown == DEFAULT_COOLDOWN

rate_limit_tokens == RATE_LIMIT_TOKENS

rate_limit_window == RATE_LIMIT_WINDOW


-----------------------------------------------------------------------------
(* Messages and content blocks *)

NoInput == ToolInput("", "")

\* a content block; the fields a block type does not have hold "" / NoInput / FALSE
Block(type, text, signature, id, input, content, is_error) ==
    [type |-> type, text |-> text, signature |-> signature, id |-> id, input |-> input,
     content |-> content, is_error |-> is_error]

ThinkingBlock(thinking, signature) ==
    Block("thinking", thinking, signature, "", NoInput, "", FALSE)

TextBlock(text) == Block("text", text, "", "", NoInput, "", FALSE)

ToolUseBlock(id, input) == Block("tool_use", "", "", id, input, "", FALSE)

ToolResultBlock(tool_use_id, content, is_error) ==
    Block("tool_result", "", "", tool_use_id, NoInput, content, is_error)

\* a block of a type the driver does not know
OtherBlock(type) == Block(type, "", "", "", NoInput, "", FALSE)

\* a message content: a string or a list of blocks
TextContent(text) == [kind |-> "text", text |-> text, blocks |-> << >>]

BlocksContent(blocks) == [kind |-> "blocks", text |-> "", blocks |-> blocks]

Message(role, content) == [role |-> role, content |-> content]

\* the injected_messages a client may be constructed with: none (as the main
\* program does) or a two-message context
InjectedChoices ==
    {<< >>,
     <<Message("user", TextContent("context")),
       Message("assistant", TextContent("noted"))>>}

\* a _compile_messages that leaves the injected messages out
compile_without_injected(history, prompt) == history \o <<Message("user", prompt)>>

\* _compile_messages
_compile_messages(history, prompt) ==
    injected_messages \o history \o <<Message("user", prompt)>>

RECURSIVE SelectBlocks(_, _)
\* the blocks of one type, in order
SelectBlocks(blocks, type) ==
    IF blocks = << >> THEN << >>
    ELSE (IF Head(blocks).type = type THEN <<Head(blocks)>> ELSE << >>)
         \o SelectBlocks(Tail(blocks), type)

RECURSIVE JoinNewline(_)
\* "\n".join(parts)
JoinNewline(parts) ==
    IF parts = << >> THEN ""
    ELSE IF Len(parts) = 1 THEN Head(parts)
    ELSE Head(parts) \o "\n" \o JoinNewline(Tail(parts))

\* an _extract_response_text that also joins the text of the thinking blocks
extract_text_and_thinking(saved_response) ==
    JoinNewline([i \in 1..Len(saved_response) |-> saved_response[i].text])

\* _extract_response_text
_extract_response_text(saved_response) ==
    LET texts == SelectBlocks(saved_response, "text")
    IN  JoinNewline([i \in 1..Len(texts) |-> texts[i].text])

\* a handler that saves the thinking text without the signature
thinking_without_signature(content) == ThinkingBlock(content.text, "")

\* _handle_thinking_content
_handle_thinking_content(content) == ThinkingBlock(content.text, content.signature)

\* _handle_text_content
_handle_text_content(content) == TextBlock(content.text)

\* lines 449-472: the saved tool_use block and the tool_result made of the
\* (result, is_error) that handle_tool gave
ToolTurn(r, content) ==
    [fs |-> r.fs, reg |-> r.reg, raised |-> r.raised,
     saved_response |-> ToolUseBlock(content.id, content.input),
     tool_results |-> <<ToolResultBlock(content.id, r.msg, r.is_error)>>]

\* a tool turn that drops the result of a failed tool call
ToolTurnDroppingErrors(r, content) ==
    [fs |-> r.fs, reg |-> r.reg, raised |-> r.raised,
     saved_response |-> ToolUseBlock(content.id, content.input),
     tool_results |-> IF r.is_error THEN << >>
                      ELSE <<ToolResultBlock(content.id, r.msg, r.is_error)>>]

\* a _handle_tool_content that drops the result of a failed tool call
handle_tool_content_drops_errors(f, reg, content) ==
    ToolTurnDroppingErrors(handle_tool(f, reg, content.input), content)

\* _handle_tool_content: runs the tool, returns saved_response and tool_results
_handle_tool_content(f, reg, content) ==
    ToolTurn(handle_tool(f, reg, content.input), content)

RECURSIVE ProcessBlocks(_, _, _, _)
\* a driver whose later tool calls of a response start from an empty backup
\* registry instead of the one the earlier calls left
after_tool_content_forgetting_registry(t, blocks, acc) ==
    ProcessBlocks(t.fs, << >>, blocks,
        [saved_response |-> Append(acc.saved_response, t.saved_response),
         tool_called |-> TRUE,
         tool_results |-> acc.tool_results \o t.tool_results])

\* lines 405-408: the accumulators after a tool_use block, t being what
\* _handle_tool_content returned; the loop goes on with the blocks left
AfterToolContent(t, blocks, acc) ==
    IF t.raised # ""
    THEN [fs |-> t.fs, reg |-> t.reg, saved_response |-> acc.saved_response,
          tool_called |-> acc.tool_called, tool_results |-> acc.tool_results,
          raised |-> t.raised]
    ELSE ProcessBlocks(t.fs, t.reg, blocks,
            [saved_response |-> Append(acc.saved_response, t.saved_response),
             tool_called |-> TRUE,
             tool_results |-> acc.tool_results \o t.tool_results])

\* a block loop that a block of an unknown type ends: the blocks after it are
\* not handled
process_blocks_unknown_ends_loop(f, reg, blocks, acc) ==
    IF blocks = << >> \/ Head(blocks).type \notin {"thinking", "text", "tool_use"}
    THEN [fs |-> f, reg |-> reg, saved_response |-> acc.saved_response,
          tool_called |-> acc.tool_called, tool_results |-> acc.tool_results,
          raised |-> ""]
    ELSE LET content == Head(blocks)
         IN  CASE content.type = "thinking" ->
                    ProcessBlocks(f, reg, Tail(blocks),
                        [acc EXCEPT !.saved_response =
                            Append(@, _handle_thinking_content(content))])
               [] content.type = "text" ->
                    ProcessBlocks(f, reg, Tail(blocks),
                        [acc EXCEPT !.saved_response =
                            Append(@, _handle_text_content(content))])
               [] content.type = "tool_use" ->
                    AfterToolContent(_handle_tool_content(f, reg, content),
                                     Tail(blocks), acc)

\* the loop of _process_response (lines 394-408) over the blocks left, acc holding
\* saved_response, tool_called and tool_results so far
ProcessBlocks(f, reg, blocks, acc) ==
    IF blocks = << >>
    THEN [fs |-> f, reg |-> reg, saved_response |-> acc.saved_response,
          tool_called |-> acc.tool_called, tool_results |-> acc.tool_results,
          raised |-> ""]
    ELSE LET content == Head(blocks)
         IN  CASE content.type = "thinking" ->
                    ProcessBlocks(f, reg, Tail(blocks),
                        [acc EXCEPT !.saved_response =
                            Append(@, _handle_thinking_content(content))])
               [] content.type = "text" ->
                    ProcessBlocks(f, reg, Tail(blocks),
                        [acc EXCEPT !.saved_response =
                            Append(@, _handle_text_content(content))])
               [] content.type = "tool_use" ->
                    AfterToolContent(_handle_tool_content(f, reg, content),
                                     Tail(blocks), acc)
               [] OTHER -> ProcessBlocks(f, reg, Tail(blocks), acc)

-----------------------------------------------------------------------------
(* The rate limiter *)

RECURSIVE SumTokens(_)
\* sum(usage[1] for usage in history)
SumTokens(history) ==
    IF history = << >> THEN 0 ELSE Head(history).tokens + SumTokens(Tail(history))

\* an eviction that drops the whole history once its front record has expired
evict_all_once_front_expired(history, window_start) ==
    IF history # << >> /\ Head(history).time < window_start THEN << >> ELSE history

RECURSIVE Evict(_, _)
\* while history and history[0][0] < window_start: history.popleft()
Evict(history, window_start) ==
    IF history # << >> /\ Head(history).time < window_start
    THEN Evict(Tail(history), window_start)
    ELSE history

\* the least whole number of seconds not below num / den (den > 0, num >= 0):
\* the first tick of the clock at which a sleep of num / den seconds is over
CeilDiv(num, den) == (num + den - 1) \div den

\* the estimate of the next request's tokens, max_tokens + 1000
estimated_next_request == max_tokens + PromptBuffer

\* _apply_rate_limit entered at current_time: the clock and the usage history
\* when it ends, whether it ends by raising, and whether it found the capacity
\* short while records were in the window
apply_rate_limit(history, last_call, current_time) ==
    LET elapsed == current_time - last_call
        t1 == IF elapsed < cooldown THEN current_time + (cooldown - elapsed)
              ELSE current_time
        pruned == Evict(history, t1 - rate_limit_window)
        current_usage == SumTokens(pruned)
        available_capacity == rate_limit_tokens - current_usage
    IN  IF available_capacity < estimated_next_request
        THEN IF pruned # << >>
             THEN LET oldest_record_time == Head(pruned).time
                      oldest_record_tokens == Head(pruned).tokens
                  IN  IF oldest_record_tokens = 0
                      THEN [now |-> t1, history |-> pruned, raised |-> "ZeroDivisionError",
                            short |-> TRUE]
                      ELSE [now |-> t1 + CeilDiv(
                                        Max(0, (oldest_record_time + rate_limit_window) - t1)
                                        * (estimated_next_request - available_capacity),
                                        oldest_record_tokens),
                            history |-> pruned, raised |-> "", short |-> TRUE]
             ELSE [now |-> t1 + FallbackSleep, history |-> pruned, raised |-> "",
                   short |-> FALSE]
        ELSE [now |-> t1, history |-> pruned, raised |-> "", short |-> FALSE]

\* a tracker that counts only the output tokens of a response
tracked_output_tokens(usage) ==
    IF usage.present THEN usage.output_tokens
    ELSE max_tokens + PromptBuffer

\* the tokens _track_token_usage records for a response
tracked_tokens(usage) ==
    IF usage.present THEN usage.input_tokens + usage.output_tokens
    ELSE max_tokens + PromptBuffer

\* get_token_usage_stats changes the client only by evicting expired records
stats_evict(history, current_time) == Evict(history, current_time - rate_limit_window)

-----------------------------------------------------------------------------
(* The completion service and the user: the inputs of the client *)

\* the tool calls the service may ask for
ToolCalls ==
    {[ToolInput("str_replace", "a.html") EXCEPT !.old_str = "b", !.new_str = "c"],
     [ToolInput("create", "a.html") EXCEPT !.file_text = "n\n", !.overwrite = TRUE],
     ToolInput("undo_edit", "a.html"),
     ToolInput("rm", "a.html")}

\* the block types of the responses the service may give
ResponseShapes ==
    {<<"text">>, <<"thinking", "text">>, <<"tool_use">>,
     <<"text", "tool_use", "tool_use">>, <<"redacted_thinking", "text">>,
     <<"text", "thinking", "text">>}

\* the id of the n-th tool_use block the service hands out
ToolUseId(n) == "toolu_" \o ToStr(n)

\* the signature the service puts on a thinking block: an opaque token, another
\* one once the service has handed out another tool_use id
Signature(n) == "sig" \o ToStr(n)

RECURSIVE ResponsesOfShape(_, _, _)
\* the block lists of a shape, n being the number of the next tool_use id and
\* calls the tool calls the service may ask for
ResponsesOfShape(shape, n, calls) ==
    IF shape = << >> THEN {<< >>}
    ELSE CASE Head(shape) = "tool_use" ->
                {<<ToolUseBlock(ToolUseId(n), c)>> \o r :
                    c \in calls, r \in ResponsesOfShape(Tail(shape), n + 1, calls)}
           [] Head(shape) = "thinking" ->
                {<<ThinkingBlock("plan", Signature(n))>> \o r :
                    r \in ResponsesOfShape(Tail(shape), n, calls)}
           [] Head(shape) = "text" ->
                {<<TextBlock("text" \o ToStr(Len(shape)))>> \o r :
                    r \in ResponsesOfShape(Tail(shape), n, calls)}
           [] OTHER ->
                {<<OtherBlock(Head(shape))>> \o r :
                    r \in ResponsesOfShape(Tail(shape), n, calls)}

Usage(present, input_tokens, output_tokens) ==
    [present |-> present, input_tokens |-> input_tokens, output_tokens |-> output_tokens]

\* the usage object of the responses of Spec
UsualUsage == {Usage(TRUE, 1000, 2000)}

\* the usage objects of the responses of SpecRate: a usual one, one counting no
\* token, none
Usages == {Usage(TRUE, 1000, 2000), Usage(TRUE, 0, 0), Usage(FALSE, 0, 0)}

\* the responses of SpecRate: a text, or one tool call
RateShapes == {<<"text">>, <<"tool_use">>}

\* an unknown tool command, or a view whose path is null
RateToolCalls == {ToolInput("rm", "a.html"), NullPathInput("view")}

\* seconds an outbound call takes
Latencies == {2}

\* seconds the user takes to answer the prompt of the main loop, in Spec
PromptAtOnce == {0}

\* and in SpecRate
ThinkTimes == {0, 61}

\* the errors an outbound call may raise
CallErrors == {"RateLimitError", "APIConnectionError"}

\* the main loop stops reading input once the clock has passed this value
MaxClock == 240

NoResponse == [content |-> << >>, usage |-> Usage(FALSE, 0, 0)]

HasToolUse(blocks) == SelectBlocks(blocks, "tool_use") # << >>

-----------------------------------------------------------------------------
(* The client: the main program and ClaudeClient.prompt *)

\* prompt(), lines 255-259: the call parameters are prepared, the gate is next
BeginPrompt(history, prompt) ==
    /\ turnInput' = prompt
    /\ kwargsMessages' = _compile_messages(history, prompt)
    /\ pc' = "gate"

\* a continuation that goes to the outbound call without the gate
ContinueWithoutGate(history, tool_results) ==
    /\ turnInput' = BlocksContent(tool_results)
    /\ kwargsMessages' = _compile_messages(history, BlocksContent(tool_results))
    /\ pc' = "call"

\* line 416: return self.prompt(tool_results)
ContinuePrompt(history, tool_results) == BeginPrompt(history, BlocksContent(tool_results))

\* a driver that gives up the chain when every tool call of the response failed
continue_unless_all_failed(r) ==
    r.tool_called /\ \E i \in 1..Len(r.tool_results) : ~r.tool_results[i].is_error

\* line 415: if tool_called
ShouldContinue(r) == r.tool_called

\* a driver that answers an exception by going through the gate and calling again
retry_on_error(err, t) == pc' = "gate" /\ now' = t

\* an exception leaving the top-level prompt() at clock value t: the prompt of
\* line 605 is not guarded, the main loop catches (lines 644-654)
Propagate(err, t) ==
    IF topLevel = "initial"
    THEN pc' = "exit" /\ now' = t
    ELSE /\ pc' = "idle"
         /\ now' = IF err = "RateLimitError" THEN t + RateLimitBackoff ELSE t

NewChain(err) ==
    [g EXCEPT !.chainCalls = 0, !.chainTools = 0, !.done = "running", !.error = err,
              !.returned = "", !.history0 = message_history]

\* line 605: client.prompt(initial_prompt)
InitialPrompt ==
    /\ pc = "start"
    /\ BeginPrompt(message_history, TextContent("initial"))
    /\ g' = NewChain("")
    /\ UNCHANGED <<message_history, last_api_call, token_usage_history, now, topLevel,
                   response, nextId>>
    /\ UNCHANGED fileVars
    /\ UNCHANGED fileGhosts
    /\ UNCHANGED <<injected_messages, config>>

\* lines 611-618: the loop shows the usage statistics
LoopTop ==
    /\ pc = "idle"
    /\ token_usage_history' = stats_evict(token_usage_history, now)
    /\ pc' = "input"
    /\ topLevel' = "loop"
    /\ UNCHANGED <<message_history, last_api_call, now, turnInput, kwargsMessages,
                   response, nextId, g>>
    /\ UNCHANGED fileVars
    /\ UNCHANGED fileGhosts
    /\ UNCHANGED <<injected_messages, config>>

\* lines 621, 642: the user types a prompt
UserPrompts(times, maxCalls) ==
    /\ pc = "input"
    /\ g.calls < maxCalls
    /\ \E d \in times :
        /\ now + d <= MaxClock
        /\ now' = now + d
    /\ BeginPrompt(message_history, TextContent("hello"))
    /\ g' = NewChain("")
    /\ UNCHANGED <<message_history, last_api_call, token_usage_history, topLevel,
                   response, nextId>>
    /\ UNCHANGED fileVars
    /\ UNCHANGED fileGhosts
    /\ UNCHANGED <<injected_messages, config>>

\* lines 626-635: the user types "stats"
UserStats(times) ==
    /\ pc = "input"
    /\ \E d \in times :
        /\ now + d <= MaxClock
        /\ now' = now + d
    /\ token_usage_history' = stats_evict(token_usage_history, now')
    /\ pc' = "idle"
    /\ UNCHANGED <<message_history, last_api_call, topLevel, turnInput, kwargsMessages,
                   response, nextId, g>>
    /\ UNCHANGED fileVars
    /\ UNCHANGED fileGhosts
    /\ UNCHANGED <<injected_messages, config>>

\* lines 636-640: the user types "clear"
UserClears(times) ==
    /\ pc = "input"
    /\ \E d \in times :
        /\ now + d <= MaxClock
        /\ now' = now + d
    /\ message_history' = << >>
    /\ pc' = "idle"
    /\ g' = [g EXCEPT !.done = "cleared"]
    /\ UNCHANGED <<last_api_call, token_usage_history, topLevel, turnInput,
                   kwargsMessages, response, nextId>>
    /\ UNCHANGED fileVars
    /\ UNCHANGED fileGhosts
    /\ UNCHANGED <<injected_messages, config>>

\* lines 623-625: the user types "exit" or "quit"
UserExits ==
    /\ pc = "input"
    /\ pc' = "exit"
    /\ UNCHANGED <<message_history, last_api_call, token_usage_history, now, topLevel,
                   turnInput, kwargsMessages, response, nextId, g>>
    /\ UNCHANGED fileVars
    /\ UNCHANGED fileGhosts
    /\ UNCHANGED <<injected_messages, config>>

\* line 259: self._apply_rate_limit()
ApplyRateLimit ==
    /\ pc = "gate"
    /\ LET r == apply_rate_limit(token_usage_history, last_api_call, now)
       IN  /\ token_usage_history' = r.history
           /\ IF r.raised # ""
              THEN /\ Propagate(r.raised, r.now)
                   /\ g' = [g EXCEPT !.error = r.raised, !.done = "raised",
                                     !.gateShort = r.short]
              ELSE /\ now' = r.now
                   /\ pc' = "call"
                   /\ g' = [g EXCEPT !.gates = @ + 1, !.gateShort = r.short]
    /\ UNCHANGED <<message_history, last_api_call, topLevel, turnInput, kwargsMessages,
                   response, nextId>>
    /\ UNCHANGED fileVars
    /\ UNCHANGED fileGhosts
    /\ UNCHANGED <<injected_messages, config>>

\* the ghost record once an outbound call has been issued at the clock value now
CallIssued ==
    [g EXCEPT !.calls = @ + 1, !.chainCalls = @ + 1, !.prevCallAt = g.callAt,
              !.callAt = now]

\* lines 262-266: the outbound call returns a response; its time and usage are
\* recorded.  The service asks for no further tool call when the chain could not
\* go on within maxCalls calls.
ApiReturns(shapes, calls, usages, maxCalls) ==
    /\ pc = "call"
    /\ \E shape \in shapes, usage \in usages, latency \in Latencies :
        \E content \in ResponsesOfShape(shape, nextId, calls) :
            /\ HasToolUse(content) => g.calls + 1 < maxCalls
            /\ now' = now + latency
            /\ last_api_call' = now'
            /\ token_usage_history' =
                    Append(token_usage_history,
                           [time |-> now', tokens |-> tracked_tokens(usage)])
            /\ response' = [content |-> content, usage |-> usage]
            /\ nextId' = nextId + Len(SelectBlocks(content, "tool_use"))
    /\ pc' = "process"
    /\ g' = CallIssued
    /\ UNCHANGED <<message_history, topLevel, turnInput, kwargsMessages>>
    /\ UNCHANGED fileVars
    /\ UNCHANGED fileGhosts
    /\ UNCHANGED <<injected_messages, config>>

\* a driver that put the user message in the history before the call, which raises
ApiRaisesLeavingTurnInput ==
    /\ pc = "call"
    /\ \E err \in CallErrors, latency \in Latencies :
        /\ Propagate(err, now + latency)
        /\ g' = [CallIssued EXCEPT !.error = err, !.done = "raised"]
    /\ message_history' = Append(message_history, Message("user", turnInput))
    /\ UNCHANGED <<last_api_call, token_usage_history, topLevel, turnInput,
                   kwargsMessages, response, nextId>>
    /\ UNCHANGED fileVars
    /\ UNCHANGED fileGhosts
    /\ UNCHANGED <<injected_messages, config>>

\* line 262: the outbound call raises; nothing is recorded, the error propagates
ApiRaises ==
    /\ pc = "call"
    /\ \E err \in CallErrors, latency \in Latencies :
        /\ Propagate(err, now + latency)
        /\ g' = [CallIssued EXCEPT !.error = err, !.done = "raised"]
    /\ UNCHANGED <<message_history, last_api_call, token_usage_history, topLevel,
                   turnInput, kwargsMessages, response, nextId>>
    /\ UNCHANGED fileVars
    /\ UNCHANGED fileGhosts
    /\ UNCHANGED <<injected_messages, config>>

\* lines 410-419: r being the outcome of the block loop, the turn is appended to
\* the history, then the chain continues or prompt() returns; an exception that
\* left the block loop leaves prompt() before any of that
EndOfResponse(r, history, tools) ==
    /\ fs' = r.fs
    /\ backup_registry' = r.reg
    /\ IF r.raised # ""
       THEN /\ pc' = IF topLevel = "initial" THEN "exit" ELSE "idle"
            /\ g' = [g EXCEPT !.done = "raised", !.error = r.raised]
            /\ UNCHANGED <<message_history, turnInput, kwargsMessages>>
       ELSE /\ message_history' = history
            /\ IF ShouldContinue(r)
               THEN /\ ContinuePrompt(history, r.tool_results)
                    /\ g' = [g EXCEPT !.chainTools = @ + tools]
               ELSE /\ pc' = "idle"
                    /\ g' = [g EXCEPT !.chainTools = @ + tools, !.done = "returned",
                                      !.returned =
                                          _extract_response_text(r.saved_response)]
                    /\ UNCHANGED <<turnInput, kwargsMessages>>

\* a history to which only the assistant message of the turn is appended
history_without_turn_input(r) ==
    message_history \o <<Message("assistant", BlocksContent(r.saved_response))>>

\* the history once the turn is appended (lines 411-412)
HistoryWith(r) ==
    message_history \o <<Message("user", turnInput),
                         Message("assistant", BlocksContent(r.saved_response))>>

EndOfTurn(r) == EndOfResponse(r, HistoryWith(r), IF HasToolUse(response.content) THEN 1 ELSE 0)

\* line 269 and _process_response: the blocks are handled in order, the turn is
\* appended to the history, then the chain continues or prompt() returns
ProcessResponse ==
    /\ pc = "process"
    /\ EndOfTurn(ProcessBlocks(fs, backup_registry, response.content,
                    [saved_response |-> << >>, tool_called |-> FALSE,
                     tool_results |-> << >>]))
    /\ UNCHANGED <<last_api_call, token_usage_history, now, topLevel, response, nextId>>
    /\ UNCHANGED fileGhosts
    /\ UNCHANGED <<injected_messages, config>>

\* the configuration: lines 154-169 store the arguments, config.state tells
\* whether no client was constructed yet, one was, or __init__ raised
Config(state, model, maxTokens, thinking_budget, text_editor, repo_path) ==
    [state |-> state, model |-> model, max_tokens |-> maxTokens,
     thinking_budget |-> thinking_budget, text_editor |-> text_editor,
     repo_path |-> repo_path]

\* line 129: the default of repo_path
DEFAULT_REPO_PATH == "."

NoConfig == Config("none", "", 0, 0, FALSE, DEFAULT_REPO_PATH)

\* lines 586-593: the client the main program constructs
MainConfig ==
    Config("constructed", DEFAULT_MODEL, DEFAULT_MAX_TOKENS, MainThinkingBudget, TRUE,
           DEFAULT_REPO_PATH)

\* any(model_prefix in model for model_prefix in prefixes)
HasSupport(model, prefixes) == \E model_prefix \in prefixes : Contains(model, model_prefix)

\* a validation that accepts every thinking budget from 1 up
validate_without_minimum(model, maxTokens, thinking_budget, text_editor) ==
    IF \/ thinking_budget > 0 /\ ~HasSupport(model, THINKING_MODELS)
       \/ thinking_budget < 0
       \/ thinking_budget > maxTokens
       \/ text_editor /\ ~HasSupport(model, TEXT_EDITOR_MODELS)
    THEN "ValueError"
    ELSE ""

\* _validate_config: the exception it raises, "" when it raises none
_validate_config(model, maxTokens, thinking_budget, text_editor) ==
    IF thinking_budget > 0 /\ ~HasSupport(model, THINKING_MODELS) THEN "ValueError"
    ELSE IF thinking_budget < 0 THEN "ValueError"
    ELSE IF 0 < thinking_budget /\ thinking_budget < MinThinkingBudget THEN "ValueError"
    ELSE IF thinking_budget > maxTokens THEN "ValueError"
    ELSE IF text_editor /\ ~HasSupport(model, TEXT_EDITOR_MODELS) THEN "ValueError"
    ELSE ""

\* the state of the client apart from its configuration and the position of
\* the main program
InitClientState ==
    /\ message_history = << >>
    /\ last_api_call = 0
    /\ token_usage_history = << >>
    /\ now = StartTime
    /\ topLevel = "initial"
    /\ turnInput = TextContent("")
    /\ kwargsMessages = << >>
    /\ response = NoResponse
    /\ nextId = 1
    /\ injected_messages \in InjectedChoices
    /\ g = [calls |-> 0, gates |-> 0, callAt |-> -1, prevCallAt |-> -1, chainCalls |-> 0,
            chainTools |-> 0, done |-> "none", returned |-> "", error |-> "",
            gateShort |-> FALSE, history0 |-> << >>]

\* the state after the main program has constructed its client
InitClient ==
    /\ InitClientState
    /\ pc = "start"
    /\ config = MainConfig

\* the arguments of the constructor calls
ModelChoices ==
    {DEFAULT_MODEL, "claude-3-7-sonnet", "claude-3-5-sonnet-20241022",
     "claude-3-opus-20240229"}

MaxTokensChoices == {DEFAULT_MAX_TOKENS, MinThinkingBudget + 500}

BudgetChoices ==
    {-1, 0, 1, MinThinkingBudget - 1, MinThinkingBudget, MainThinkingBudget,
     DEFAULT_MAX_TOKENS, DEFAULT_MAX_TOKENS + 1}

\* the repo_path a client may be constructed with: the default, or a directory
\* below the working directory of the process
RepoPaths == {DEFAULT_REPO_PATH, "docs"}

\* lines 121-177: ClaudeClient(...) is called; it stores its arguments and
\* validates them, and either returns the client or raises
Construct ==
    /\ pc = "new"
    /\ \E model \in ModelChoices, maxTokens \in MaxTokensChoices,
          thinking_budget \in BudgetChoices, text_editor \in BOOLEAN,
          repo_path \in RepoPaths :
        LET raised == _validate_config(model, maxTokens, thinking_budget, text_editor)
        IN  /\ config' = Config(IF raised = "" THEN "constructed" ELSE "raised",
                                model, maxTokens, thinking_budget, text_editor,
                                repo_path)
            /\ pc' = IF raised = "" THEN "start" ELSE "exit"
            /\ g' = [g EXCEPT !.error = raised]
    /\ message_history' = << >>
    /\ last_api_call' = 0
    /\ token_usage_history' = << >>
    /\ injected_messages' = << >>
    /\ UNCHANGED <<now, topLevel, turnInput, kwargsMessages, response, nextId>>
    /\ UNCHANGED fileVars
    /\ UNCHANGED fileGhosts

\* before the client is constructed
InitConfig ==
    /\ InitFiles
    /\ InitClientState
    /\ injected_messages = << >>
    /\ pc = "new"
    /\ config = NoConfig

NextConfig == Construct

\* the construction of a client from any arguments
SpecConfig == InitConfig /\ [][NextConfig]_vars

\* no messages are injected: what the main program does
NoneInjected == injected_messages = << >>

Init == InitFiles /\ InitClient /\ NoneInjected

\* the client starts beside an a.html that has no backup yet
InitClientFiles ==
    /\ InitFiles
    /\ fs["a.html"].kind = "file"
    /\ fs["a.html.backup"].kind = "none"

InitSpec == InitClientFiles /\ InitClient

InitRate == InitSpec /\ NoneInjected

Next ==
    \/ InitialPrompt
    \/ LoopTop
    \/ UserPrompts(PromptAtOnce, MaxCalls)
    \/ UserStats(PromptAtOnce)
    \/ UserClears(PromptAtOnce)
    \/ UserExits
    \/ ApplyRateLimit
    \/ ApiReturns(ResponseShapes, ToolCalls, UsualUsage, MaxCalls)
    \/ ApiRaises
    \/ ProcessResponse

NextRate ==
    \/ InitialPrompt
    \/ LoopTop
    \/ UserPrompts(ThinkTimes, MaxRateCalls)
    \/ UserStats(ThinkTimes)
    \/ UserClears(ThinkTimes)
    \/ UserExits
    \/ ApplyRateLimit
    \/ ApiReturns(RateShapes, RateToolCalls, Usages, MaxRateCalls)
    \/ ApiRaises
    \/ ProcessResponse

\* the client: main program, prompt chains and tool dispatch
Spec == InitSpec /\ [][Next]_vars

\* the client with the inputs that exercise the rate limiter: usage objects of
\* every kind and a user who may wait for the window to pass
SpecRate == InitRate /\ [][NextRate]_vars

\* the responses of SpecBlocks: blocks of types the driver does not know before,
\* between and after the blocks it knows, with and without a tool call, and
\* thinking blocks before a text and before a tool call
BlockShapes ==
    {<<"text", "redacted_thinking", "tool_use">>, <<"redacted_thinking">>,
     <<"image", "thinking", "text">>, <<"tool_use", "server_tool_use", "text">>,
     <<"thinking", "tool_use">>}

\* a view of a.html, a create that overwrites it, or an unknown command
BlockToolCalls ==
    {ToolInput("view", "a.html"),
     [ToolInput("create", "a.html") EXCEPT !.file_text = "n\n", !.overwrite = TRUE],
     ToolInput("rm", "a.html")}

NextBlocks ==
    \/ InitialPrompt
    \/ LoopTop
    \/ UserPrompts(PromptAtOnce, MaxBlockCalls)
    \/ UserStats(PromptAtOnce)
    \/ UserClears(PromptAtOnce)
    \/ UserExits
    \/ ApplyRateLimit
    \/ ApiReturns(BlockShapes, BlockToolCalls, UsualUsage, MaxBlockCalls)
    \/ ApiRaises
    \/ ProcessResponse

\* a client constructed as the main program does, but for the repo_path
InitBlocks ==
    /\ InitClientFiles
    /\ InitClientState
    /\ NoneInjected
    /\ pc = "start"
    /\ \E repo_path \in RepoPaths : config = [MainConfig EXCEPT !.repo_path = repo_path]

\* the client with responses made of blocks of every kind
SpecBlocks == InitBlocks /\ [][NextBlocks]_vars

\* the file edit operations and the backup store called directly
SpecFiles == Init /\ [][NextFiles]_vars

InitTools == InitToolFiles /\ InitClient /\ NoneInjected

\* one file edit operation called on a file of any content with any argument
SpecTools == InitTools /\ [][NextTools]_vars

-----------------------------------------------------------------------------
(* Claims about the backup store, checked under SpecFiles *)

\* the operations that pass through with_backup or call register_for_backup
RegisteringOps == {"str_replace", "insert", "register_for_backup"}

\* the calls before the last one that name the file of p (p or another path to it)
CallsOnFileOf(p) ==
    {i \in 1..(Len(opLog) - 1) : FileOf[opLog[i][2]] = FileOf[p]}

\* the last call is undo_edit(p), and the earlier calls on p's file are one or
\* more str_replace and insert_text calls that name p
EditsThenUndo(p) ==
    /\ lastOp.op = "undo_edit"
    /\ lastOp.path = p
    /\ CallsOnFileOf(p) # {}
    /\ \A i \in CallsOnFileOf(p) :
            opLog[i][1] \in {"str_replace", "insert"} /\ opLog[i][2] = p

\* C3: after one or more str_replace and insert_text calls on an existing
\* backup-eligible file p, undo_edit(p) succeeds and leaves p with the content
\* it had at process start, before the first of those calls
C3_UndoRestoresPreSession ==
    \A p \in Paths :
        (EditsThenUndo(p) /\ fs0[FileOf[p]].kind = "file" /\ should_backup_file(p))
            => (~lastOp.is_error /\ fs[FileOf[p]] = fs0[FileOf[p]])

\* C3 witness: two edits changed a.html (the backup differs from what the second
\* edit read) and undo_edit has restored it
C3_Witness ==
    /\ EditsThenUndo("a.html")
    /\ Len(opLog) = 3
    /\ opLog[1] = <<"str_replace", "a.html">>
    /\ opLog[2] = <<"insert", "a.html">>
    /\ fs0["a.html"].kind = "file"
    /\ fs["a.html"] = fs0["a.html"]
    /\ ~lastOp.is_error
    /\ lastOp.pre.data = "ac\na\ny"

\* C4 (as claimed): create_file with overwrite=True on an existing
\* backup-eligible file leaves the file registered and a backup beside it
C4_CreateOverwriteRegisters ==
    (/\ lastOp.op = "create"
     /\ lastOp.arg
     /\ lastOp.pre.kind = "file"
     /\ should_backup_file(lastOp.path))
        => (/\ lastOp.path \in DOMAIN backup_registry
            /\ Exists(fs, BackupPath(lastOp.path)))

\* C5: a call that registers p (register_for_backup itself, str_replace,
\* insert_text) copies p to p.backup and enters p in the registry when p is an
\* existing eligible file not yet registered, and changes neither p.backup nor
\* the registry when p is registered already
C5_CopyOnlyOnFirstRegister ==
    [][(opCount' = opCount + 1 /\ lastOp'.op \in RegisteringOps)
        => LET p == lastOp'.path
           IN  /\ p \in DOMAIN backup_registry
                    => /\ backup_registry' = backup_registry
                       /\ fs'[FileOf[BackupPath(p)]] = fs[FileOf[BackupPath(p)]]
               /\ (p \notin DOMAIN backup_registry /\ IsFile(fs, p)
                        /\ should_backup_file(p))
                    => /\ p \in DOMAIN backup_registry'
                       /\ fs'[FileOf[BackupPath(p)]] = fs[FileOf[p]]]_vars

\* C5 witness: register_for_backup("a.html") was called after an edit of a.html
\* had registered it; the backup still holds the content from before that edit
C5_Witness ==
    /\ Len(opLog) >= 2
    /\ opLog[1] = <<"str_replace", "a.html">>
    /\ lastOp.op = "register_for_backup"
    /\ lastOp.path = "a.html"
    /\ "a.html" \in DOMAIN backup_registry
    /\ fs["a.html.backup"] = fs0["a.html"]
    /\ fs["a.html"] # fs0["a.html"]
    /\ \A i \in 1..Len(opLog) : opLog[i][2] = "a.html"

-----------------------------------------------------------------------------
(* Claims about the conversation driver and the rate limiter *)

\* the tool_use blocks of the assistant message i of msgs each have exactly one
\* tool_result with their id in the user message i + 1
AnsweredAt(msgs, i) ==
    \A j \in 1..Len(msgs[i].content.blocks) :
        LET b == msgs[i].content.blocks[j]
        IN  b.type = "tool_use" =>
                /\ i + 1 <= Len(msgs)
                /\ msgs[i + 1].role = "user"
                /\ Cardinality({k \in 1..Len(msgs[i + 1].content.blocks) :
                        /\ msgs[i + 1].content.blocks[k].type = "tool_result"
                        /\ msgs[i + 1].content.blocks[k].id = b.id}) = 1

ToolUsesAnswered(msgs) ==
    \A i \in 1..Len(msgs) : msgs[i].role = "assistant" => AnsweredAt(msgs, i)

\* C1 (as claimed): in the message array of every outbound call, every tool_use
\* id of an assistant message has exactly one tool_result in the user message
\* that follows it
C1_ToolUsesAnswered == pc = "call" => ToolUsesAnswered(kwargsMessages)

\* C2: the tool_results handed to the continuation call are as many as the
\* tool_use blocks of the response just processed, and the i-th carries the id
\* of the i-th tool_use block
C2_ToolResultsMatchToolUses ==
    (pc \in {"gate", "call"} /\ turnInput.kind = "blocks")
        => LET uses == SelectBlocks(response.content, "tool_use")
               results == turnInput.blocks
           IN  /\ Len(results) = Len(uses)
               /\ \A i \in 1..Len(results) :
                    results[i].type = "tool_result" /\ results[i].id = uses[i].id

\* C2 witness: a response with two tool_use blocks, the first tool call failed
\* and the second succeeded, and the continuation holds both results
C2_Witness ==
    /\ pc = "gate"
    /\ turnInput.kind = "blocks"
    /\ Len(turnInput.blocks) = 2
    /\ turnInput.blocks[1].is_error
    /\ ~turnInput.blocks[2].is_error
    /\ Len(SelectBlocks(response.content, "tool_use")) = 2

\* the tokens of the records not older than current_time - rate_limit_window
UsageInWindow(history, current_time) ==
    SumTokens(Evict(history, current_time - rate_limit_window))

\* C6 (as claimed): when _apply_rate_limit found the capacity short of the
\* estimate while records were in the window, it returns only once the usage
\* still in the window plus the estimate fits the budget
C6_GateWaitsForCapacity ==
    (pc = "call" /\ g.gateShort)
        => UsageInWindow(token_usage_history, now) + estimated_next_request
                <= rate_limit_tokens

\* C7 (as claimed): _apply_rate_limit raises no exception
C7_GateNeverRaises == g.error # "ZeroDivisionError"

\* C8 (as claimed): at least cooldown seconds lie between two consecutive
\* outbound calls
C8_CooldownBetweenCalls == g.prevCallAt >= 0 => g.callAt - g.prevCallAt >= cooldown

\* C9: every outbound call is preceded by its own completed _apply_rate_limit:
\* where the call is about to be issued one more gate than calls has completed,
\* anywhere else as many
C9_GateBeforeEveryCall ==
    /\ pc = "call" => g.gates = g.calls + 1
    /\ pc # "call" => g.gates = g.calls

\* C9 witness: the gate has run for a continuation call that is about to be issued
C9_Witness ==
    /\ pc = "call"
    /\ turnInput.kind = "blocks"
    /\ g.chainCalls >= 1
    /\ g.gates = g.calls + 1

\* C10: prompt() continues exactly after a response with a tool_use block and
\* returns after the first response without one, having made one call more
\* than there were tool-use responses
C10_ContinuesWhileToolUse ==
    /\ g.done = "returned"
            => ~HasToolUse(response.content) /\ g.chainCalls = g.chainTools + 1
    /\ (g.done = "running" /\ pc \in {"gate", "call"})
            => /\ g.chainCalls = g.chainTools
               /\ g.chainCalls > 0
                    => HasToolUse(response.content) /\ turnInput.kind = "blocks"
    /\ (g.done = "running" /\ pc = "process") => g.chainCalls = g.chainTools + 1

\* C10 witness: a prompt returned after two tool-use responses and a third,
\* pure-text one
C10_Witness ==
    /\ g.done = "returned"
    /\ g.chainTools = 2
    /\ g.chainCalls = 3

RECURSIVE TextReply(_)
\* the text of the text blocks of a response, in delivery order, a newline
\* between one and the next
TextReply(blocks) ==
    IF blocks = << >> THEN ""
    ELSE IF Head(blocks).type # "text" THEN TextReply(Tail(blocks))
    ELSE IF \E i \in 1..Len(Tail(blocks)) : Tail(blocks)[i].type = "text"
         THEN Head(blocks).text \o "\n" \o TextReply(Tail(blocks))
         ELSE Head(blocks).text

\* C11: the string prompt() returns is the newline-join of the text blocks of
\* the last response of the chain, the one without tool_use, and of nothing else
C11_ReturnsTextOfLastResponse ==
    g.done = "returned" => g.returned = TextReply(response.content)

\* C11 witness: a chain whose tool-use response carried a text block and whose
\* last response held text, thinking, text; the two texts of the last are returned
C11_Witness ==
    /\ g.done = "returned"
    /\ g.chainTools = 1
    /\ Len(message_history) = 4
    /\ SelectBlocks(message_history[2].content.blocks, "text") # << >>
    /\ SelectBlocks(response.content, "thinking") # << >>
    /\ g.returned = "text3\ntext1"

\* the ids of the blocks of one type in the content of a message
BlockIds(message, type) ==
    LET blocks == SelectBlocks(message.content.blocks, type)
    IN  [i \in 1..Len(blocks) |-> blocks[i].id]

\* C12: a chain of k tool-use responses and one pure-text response extends the
\* history it started from by exactly 2(k+1) messages: the user prompt, for each
\* tool-use response the assistant message with its tool_use blocks and the user
\* message with the matching tool_result list, last the assistant text message,
\* whose text is the string returned
C12_ChainExtendsHistory ==
    g.done = "returned"
        => LET k == g.chainTools
               n == Len(g.history0)
               h == message_history
           IN  /\ Len(h) = n + 2 * (k + 1)
               /\ SubSeq(h, 1, n) = g.history0
               /\ h[n + 1].role = "user" /\ h[n + 1].content.kind = "text"
               /\ \A j \in 1..k :
                    /\ h[n + 2 * j].role = "assistant"
                    /\ BlockIds(h[n + 2 * j], "tool_use") # << >>
                    /\ h[n + 2 * j + 1].role = "user"
                    /\ h[n + 2 * j + 1].content.kind = "blocks"
                    /\ Len(h[n + 2 * j + 1].content.blocks)
                            = Len(BlockIds(h[n + 2 * j], "tool_use"))
                    /\ BlockIds(h[n + 2 * j + 1], "tool_result")
                            = BlockIds(h[n + 2 * j], "tool_use")
               /\ h[n + 2 * k + 2].role = "assistant"
               /\ BlockIds(h[n + 2 * k + 2], "tool_use") = << >>
               /\ g.returned = TextReply(h[n + 2 * k + 2].content.blocks)

\* C12 witness: k = 1 from an empty history: four messages user,
\* assistant-with-tool-use, user-with-tool-result, assistant-with-text, and the
\* text reply returned
C12_Witness ==
    /\ g.done = "returned"
    /\ g.chainTools = 1
    /\ g.history0 = << >>
    /\ Len(message_history) = 4
    /\ BlockIds(message_history[2], "tool_use") = <<"toolu_1">>
    /\ BlockIds(message_history[3], "tool_result") = <<"toolu_1">>
    /\ g.returned = "text1"

\* C13: the history has even length and its roles alternate user, assistant:
\* no user message is in it without the assistant message of the same turn
C13_HistoryInPairs ==
    /\ Len(message_history) % 2 = 0
    /\ \A i \in 1..Len(message_history) :
            message_history[i].role = IF i % 2 = 1 THEN "user" ELSE "assistant"

\* C13 witness: the continuation call of a tool chain raised a transport error;
\* the history holds the pair of the first call and nothing of the failed one
C13_Witness ==
    /\ g.done = "raised"
    /\ g.error \in CallErrors
    /\ g.chainCalls = 2
    /\ turnInput.kind = "blocks"
    /\ Len(message_history) = Len(g.history0) + 2

\* the sequence a is a prefix of the sequence b
IsPrefix(a, b) == Len(a) <= Len(b) /\ SubSeq(b, 1, Len(a)) = a

\* C14 (as claimed): the history is append-only: every step of the client,
\* clear_conversation included, leaves the previous history as a prefix of the new
C14_HistoryAppendOnly == [][IsPrefix(message_history, message_history')]_vars

\* C15: the message array of an outbound call is injected_messages, then the
\* whole current history, then one user message holding the turn input; the
\* injected messages never change
C15_CompiledMessageArray ==
    /\ [](pc \in {"gate", "call"}
            => kwargsMessages = injected_messages \o message_history
                                \o <<[role |-> "user", content |-> turnInput]>>)
    /\ [][injected_messages' = injected_messages]_vars

\* C15 witness: a continuation call of a client with two injected messages: the
\* array holds them, the two messages of the history and the tool_result list
C15_Witness ==
    /\ pc = "call"
    /\ Len(injected_messages) = 2
    /\ Len(message_history) = 2
    /\ turnInput.kind = "blocks"
    /\ Len(kwargsMessages) = 5
    /\ kwargsMessages[1].content.text = "context"
    /\ kwargsMessages[5].content = turnInput

\* C16: when the outbound call fails the step leaves the history and the usage
\* history as they were, exactly one call was issued (no retry), control is back
\* with the caller of the top-level prompt() with the error of the call, and the
\* history still holds the pairs of the chain's earlier calls
C16_FailedCallPropagates ==
    [][(pc = "call" /\ g'.done = "raised")
        => /\ message_history' = message_history
           /\ token_usage_history' = token_usage_history
           /\ g'.calls = g.calls + 1
           /\ g'.error \in CallErrors
           /\ pc' = IF topLevel = "initial" THEN "exit" ELSE "idle"
           /\ IsPrefix(g.history0, message_history')
           /\ Len(message_history') = Len(g.history0) + 2 * g.chainCalls]_vars

\* C16 witness: in the main loop the continuation call of a tool chain raised
\* APIConnectionError; the pairs of the two completed calls and their two usage
\* records are in place
C16_Witness ==
    /\ g.done = "raised"
    /\ g.error = "APIConnectionError"
    /\ pc = "idle"
    /\ g.chainCalls = 2
    /\ g.calls = 3
    /\ Len(message_history) = 4
    /\ Len(token_usage_history) = 2

\* C17 (as claimed): whatever failure the dispatch of a tool_use block meets, the
\* processing of the response ends with a tool_result for every tool_use id of
\* the response (is_error set for the failed ones) and with the continuation call
C17_ToolFailureDoesNotAbort ==
    [][(pc = "process" /\ HasToolUse(response.content))
        => /\ pc' = "gate"
           /\ turnInput'.kind = "blocks"
           /\ BlockIds([content |-> turnInput'], "tool_result")
                = BlockIds([content |-> [blocks |-> response.content]], "tool_use")]_vars

RECURSIVE DispatchInOrder(_, _, _)
\* the tool calls of the blocks uses dispatched one after another from the file
\* system f and registry reg, each on what the one before left: the file system
\* and registry at the end and the result texts, up to a call that raises
DispatchInOrder(f, reg, uses) ==
    IF uses = << >> THEN [fs |-> f, reg |-> reg, msgs |-> << >>]
    ELSE LET r == handle_tool(f, reg, Head(uses).input)
         IN  IF r.raised # "" THEN [fs |-> r.fs, reg |-> r.reg, msgs |-> << >>]
             ELSE LET rest == DispatchInOrder(r.fs, r.reg, Tail(uses))
                  IN  [fs |-> rest.fs, reg |-> rest.reg, msgs |-> <<r.msg>> \o rest.msgs]

\* type, text and id of the blocks the driver knows, in order
KnownBlocks(blocks) ==
    LET known == SelectSeq(blocks, LAMBDA b : b.type \in {"thinking", "text", "tool_use"})
    IN  [i \in 1..Len(known) |-> <<known[i].type, known[i].text, known[i].id>>]

\* C18: processing a response dispatches its tool calls one after another in
\* delivery order, each on the files and backup registry the one before left,
\* and saves the blocks and the results in that order
C18_DispatchInDeliveryOrder ==
    [][pc = "process"
        => LET d == DispatchInOrder(fs, backup_registry,
                                    SelectBlocks(response.content, "tool_use"))
           IN  /\ fs' = d.fs
               /\ backup_registry' = d.reg
               /\ pc' = "gate"
                    => [i \in 1..Len(turnInput'.blocks) |-> turnInput'.blocks[i].content]
                            = d.msgs
               /\ message_history' # message_history
                    => KnownBlocks(message_history'[Len(message_history')].content.blocks)
                            = KnownBlocks(response.content)]_vars

\* C18 witness: one response asked for str_replace and then undo_edit on a.html;
\* the undo succeeded on the backup the str_replace had just registered and
\* brought the old content back
C18_Witness ==
    /\ pc = "gate"
    /\ turnInput.kind = "blocks"
    /\ Len(turnInput.blocks) = 2
    /\ LET uses == SelectBlocks(response.content, "tool_use")
       IN  /\ Len(uses) = 2
           /\ uses[1].input.command = "str_replace"
           /\ uses[2].input.command = "undo_edit"
    /\ ~turnInput.blocks[1].is_error
    /\ ~turnInput.blocks[2].is_error
    /\ g.calls = 1
    /\ "a.html" \in DOMAIN backup_registry
    /\ fs["a.html"] = fs0["a.html"]
    /\ fs["a.html.backup"] = fs0["a.html"]

\* C19: a step in which the outbound call returns appends exactly one record to
\* the back of the usage history, holding the time of recording and the input
\* plus output tokens of the response, or max_tokens + 1000 when the response
\* has no usage object; no other step makes the usage history longer
C19_OneRecordPerSuccessfulCall ==
    [][IF pc = "call" /\ pc' = "process"
       THEN token_usage_history' =
                Append(token_usage_history,
                       [time |-> now',
                        tokens |-> IF response'.usage.present
                                   THEN response'.usage.input_tokens
                                            + response'.usage.output_tokens
                                   ELSE max_tokens + 1000])
       ELSE Len(token_usage_history') <= Len(token_usage_history)]_vars

\* C19 witness: two calls have returned, the first with 1000 input and 2000
\* output tokens, the second without a usage object; the history holds the
\* record of the first and then the estimate for the second, taken just now
C19_Witness ==
    /\ pc = "process"
    /\ g.calls = 2
    /\ ~response.usage.present
    /\ Len(token_usage_history) = 2
    /\ token_usage_history[1].tokens = 3000
    /\ token_usage_history[2] = [time |-> now, tokens |-> max_tokens + 1000]
    /\ token_usage_history[1].time < now

\* the timestamps of the usage history never decrease from front to back
TimestampsNonDecreasing(history) ==
    \A i \in 1..(Len(history) - 1) : history[i].time <= history[i + 1].time

\* the records of history that are not older than t - window, in their order
NotOlderThanWindow(history, t) ==
    SelectSeq(history, LAMBDA record : record.time >= t - rate_limit_window)

\* C20: the usage history is ordered by non-decreasing timestamp; a step removes
\* records only from its front and adds only at its back; and an eviction step,
\* of _apply_rate_limit (at the time read after the cooldown sleep) or of
\* get_token_usage_stats (at the top of the loop, or for the "stats" command,
\* which unlike "clear" leaves the conversation as it was), leaves exactly the
\* records not older than that time minus the window, in their original order
C20_UsageHistoryFifo ==
    /\ [](TimestampsNonDecreasing(token_usage_history))
    /\ [][/\ \E k \in 0..Len(token_usage_history) :
                IsPrefix(SubSeq(token_usage_history, k + 1, Len(token_usage_history)),
                         token_usage_history')
          /\ pc = "gate"
                => token_usage_history'
                        = NotOlderThanWindow(token_usage_history,
                                             IF now - last_api_call < cooldown
                                             THEN last_api_call + cooldown
                                             ELSE now)
          /\ pc = "idle" /\ pc' = "input"
                => token_usage_history' = NotOlderThanWindow(token_usage_history, now)
          /\ pc = "input" /\ pc' = "idle" /\ message_history # << >>
                => IF message_history' = message_history
                   THEN token_usage_history'
                            = NotOlderThanWindow(token_usage_history, now')
                   ELSE token_usage_history' = token_usage_history]_vars

\* C20 witness: three calls have been recorded and the rate limiter has just
\* evicted the oldest record, which had left the window, and kept the two
\* younger ones in their order, before the fourth call
C20_Witness ==
    /\ pc = "call"
    /\ g.calls = 3
    /\ Len(token_usage_history) = 2
    /\ token_usage_history[1].time < token_usage_history[2].time
    /\ token_usage_history[1].time >= now - rate_limit_window
    /\ token_usage_history[1].time > StartTime + 2

-----------------------------------------------------------------------------
(* Claims about one file edit operation, checked under SpecTools *)

\* the positions at which t occurs in s
Positions(s, t) == {i \in 1..(Len(s) + 1) : MatchAt(s, t, i)}

\* s with the occurrence of t at position i replaced by r
ReplacedAt(s, t, r, i) == SubSeq(s, 1, i - 1) \o r \o SubSeq(s, i + Len(t), Len(s))

\* the node the last direct call named, as the call left it
NodeNow == fs[FileOf[lastOp.path]]

\* the last direct call was str_replace on an existing file
ReplacedInFile == lastOp.op = "str_replace" /\ lastOp.pre.kind = "file"

\* C21 as stated: str_replace on an existing file replaces a single occurrence
\* of old_str and returns no error; with no or several occurrences it leaves
\* the file unchanged and returns an error
C21_StrReplaceAsStated ==
    ReplacedInFile
        => LET at == Positions(lastOp.pre.data, lastOp.input.old_str)
           IN  IF Cardinality(at) = 1
               THEN /\ \A i \in at :
                            NodeNow.data = ReplacedAt(lastOp.pre.data, lastOp.input.old_str,
                                                      lastOp.input.new_str, i)
                    /\ ~lastOp.is_error
               ELSE NodeNow = lastOp.pre /\ lastOp.is_error

\* C21, corrected: str_replace on an existing file replaces a single occurrence
\* of a non-empty old_str, and then returns an error exactly when verify_changes
\* flags the new content; with an empty old_str, no occurrence or several, it
\* leaves the file unchanged and returns an error
C21_StrReplaceUniqueMatch ==
    ReplacedInFile
        => LET at == Positions(lastOp.pre.data, lastOp.input.old_str)
           IN  IF Cardinality(at) = 1 /\ lastOp.input.old_str # ""
               THEN /\ \A i \in at :
                            NodeNow.data = ReplacedAt(lastOp.pre.data, lastOp.input.old_str,
                                                      lastOp.input.new_str, i)
                    /\ lastOp.is_error = verify_changes(fs, lastOp.path).err
               ELSE NodeNow = lastOp.pre /\ lastOp.is_error

\* C21 witness: the single "b" of a.html was replaced by "<", the file holds the
\* new content, and the result is an error because the markup is unbalanced
C21_Witness ==
    /\ ReplacedInFile
    /\ lastOp.pre.data = "a\nb\n"
    /\ lastOp.input.old_str = "b"
    /\ lastOp.input.new_str = "<"
    /\ NodeNow.data = "a\n<\n"
    /\ lastOp.is_error

\* the last direct call was insert_text on an existing file, at a line number
\* that is not negative
InsertedInFile ==
    /\ lastOp.op = "insert"
    /\ lastOp.pre.kind = "file"
    /\ lastOp.input.insert_line >= 0

\* the lines of the file before the last direct call, and after it
LinesBefore == ReadLines(lastOp.pre.data)

LinesNow == ReadLines(NodeNow.data)

\* C22: insert_text at a line number beyond the last line of the file leaves a
\* file of at least that number of lines plus one
C22_InsertBeyondEndPads ==
    InsertedInFile /\ lastOp.input.insert_line > Len(LinesBefore)
        => /\ ~lastOp.is_error
           /\ Len(LinesNow) >= lastOp.input.insert_line + 1

\* a line without its line terminator
Chomp(line) == IF EndsWith(line, "\n") THEN SubSeq(line, 1, Len(line) - 1) ELSE line

Chomped(lines) == [i \in 1..Len(lines) |-> Chomp(lines[i])]

\* C23: insert_text at a line number from 0 to the number of lines of the file
\* leaves a file whose lines are the lines before that position, then the lines
\* of the inserted text, then the remaining lines (line terminators set aside)
C23_InsertBetweenLines ==
    InsertedInFile /\ lastOp.input.insert_line <= Len(LinesBefore)
        => /\ ~lastOp.is_error
           /\ Chomped(LinesNow)
                = Chomped(SubSeq(LinesBefore, 1, lastOp.input.insert_line))
                  \o Chomped(ReadLines(lastOp.input.new_str))
                  \o Chomped(SubSeq(LinesBefore, lastOp.input.insert_line + 1,
                                    Len(LinesBefore)))

\* the case of C23 with the arguments a tool call gives by default: the file
\* does not end in a newline and the text goes after its last line
C23_InsertAfterLastLine ==
    /\ InsertedInFile
    /\ lastOp.input.preserve_newline
    /\ lastOp.pre.data = "a\nb"
    /\ lastOp.input.insert_line = 2
    /\ lastOp.input.new_str = "x"
    /\ NodeNow.data = "a\nbx\n"

\* the last direct call was view_file on an existing file with a range of two
ViewedRange ==
    /\ lastOp.op = "view"
    /\ lastOp.pre.kind = "file"
    /\ Len(lastOp.input.view_range) = 2

\* C24: view_file with the range [start, -1], start >= 1, returns the lines of
\* the file from line start to the last
C24_ViewToEndOfFile ==
    ViewedRange /\ lastOp.input.view_range[2] = -1 /\ lastOp.input.view_range[1] >= 1
        => /\ ~lastOp.is_error
           /\ lastOp.msg = JoinLines(SubSeq(LinesBefore, lastOp.input.view_range[1],
                                            Len(LinesBefore)))

\* C25: a step that calls view_file with the range [start, end],
\* 1 <= start <= end, on a file of n lines returns lines start to min(end, n)
\* in file order and no error, and changes no file and no backup registration
C25_ViewRangeInclusive ==
    [][(ViewedRange' /\ 1 <= lastOp'.input.view_range[1]
                     /\ lastOp'.input.view_range[1] <= lastOp'.input.view_range[2])
        => LET lines == ReadLines(ReadFile(fs, lastOp'.path))
               start == lastOp'.input.view_range[1]
               end == lastOp'.input.view_range[2]
           IN  /\ ~lastOp'.is_error
               /\ lastOp'.msg
                    = JoinLines([i \in 1..(Min(end, Len(lines)) - start + 1)
                                    |-> lines[start + i - 1]])
               /\ fs' = fs
               /\ backup_registry' = backup_registry]_vars

\* C25 witness: the range [2, 4] of the file of five lines was viewed and lines
\* 2 to 4 came back
C25_Witness ==
    /\ ViewedRange
    /\ lastOp.input.view_range = <<2, 4>>
    /\ lastOp.pre.data = "1\n2\n3\n4\n5\n"
    /\ lastOp.msg = "2\n3\n4\n"
    /\ ~lastOp.is_error
    /\ fs = fs0

\* C26: a step that calls undo_edit(p) returns an error and changes nothing
\* when no file p.backup exists, and otherwise overwrites p with the content of
\* p.backup and returns no error
C26_UndoRestoresWheneverBackupExists ==
    [][lastOp'.op = "undo_edit"
        => IF ~Exists(fs, BackupPath(lastOp'.path))
           THEN /\ lastOp'.is_error
                /\ fs' = fs
                /\ backup_registry' = backup_registry
           ELSE /\ ~lastOp'.is_error
                /\ fs' = [fs EXCEPT ![FileOf[lastOp'.path]] =
                                FileNode(ReadFile(fs, BackupPath(lastOp'.path)))]]_vars

\* the last direct call was create_file or str_replace and wrote the file
WroteFile ==
    \/ lastOp.op = "create" /\ StartsWith(lastOp.msg, "File '")
    \/ lastOp.op = "str_replace" /\ StartsWith(lastOp.msg, "Text replacement successful")

\* verify_changes attached a warning to the message of the last direct call
WarningAttached == Contains(lastOp.msg, "\nVerification warning: ")

\* C28: a verification warning after a successful write leaves the result of
\* create_file without error and makes the result of str_replace an error
C28_WarningIsErrorOnlyForStrReplace ==
    WroteFile /\ WarningAttached
        => /\ lastOp.op = "create" => ~lastOp.is_error
           /\ lastOp.op = "str_replace" => lastOp.is_error


\* C29: once create_file or str_replace has written the file, the file holds
\* the written content whatever verify_changes reports of it, and the report
\* shows only in the returned message and error flag
C29_VerifierNeverRevertsAWrite ==
    WroteFile
        => /\ NodeNow.kind = "file"
           /\ lastOp.op = "create" => NodeNow.data = lastOp.input.file_text
           /\ lastOp.op = "str_replace"
                => \A i \in Positions(lastOp.pre.data, lastOp.input.old_str) :
                        NodeNow.data = ReplacedAt(lastOp.pre.data, lastOp.input.old_str,
                                                  lastOp.input.new_str, i)
           /\ lastOp.is_error = verify_changes(fs, lastOp.path).err
           /\ Contains(lastOp.msg, verify_changes(fs, lastOp.path).msg)

\* C29 witness: create_file wrote "<" to a.html, verify_changes flagged the
\* unbalanced markup, and the file holds "<"
C29_Witness ==
    /\ WroteFile
    /\ WarningAttached
    /\ lastOp.op = "create"
    /\ lastOp.input.file_text = "<"
    /\ lastOp.is_error
    /\ NodeNow = FileNode("<")
    /\ lastOp.pre # NodeNow

\* C30: the message of every result returned with an error flag, of a direct
\* call or in a tool_result sent back, begins with "Error: "
C30_ErrorsCarryThePrefix ==
    /\ lastOp.op # "none" /\ lastOp.is_error => StartsWith(lastOp.msg, "Error: ")
    /\ turnInput.kind = "blocks"
            => \A i \in 1..Len(turnInput.blocks) :
                    turnInput.blocks[i].is_error
                        => StartsWith(turnInput.blocks[i].content, "Error: ")

-----------------------------------------------------------------------------
(* Claims about the construction of the client, checked under SpecConfig *)

\* the arguments break a rule of the configuration: a thinking budget that is
\* negative, between 1 and 1023, above max_tokens, or positive for a model
\* outside the thinking whitelist, or the text editor for a model outside its
\* whitelist
BreaksConfigRule(c) ==
    \/ c.thinking_budget < 0
    \/ 1 <= c.thinking_budget /\ c.thinking_budget <= 1023
    \/ c.thinking_budget > c.max_tokens
    \/ c.thinking_budget > 0 /\ ~HasSupport(c.model, THINKING_MODELS)
    \/ c.text_editor /\ ~HasSupport(c.model, TEXT_EDITOR_MODELS)

\* C27: a constructor call whose arguments break a rule of the configuration
\* raises in the constructor and gives no client, so every constructed client
\* has a thinking budget of 0 or from 1024 to max_tokens, and a text editor and
\* a positive budget only for whitelisted models
C27_InvalidConfigFailsAtConstruction ==
    /\ config.state # "none" /\ BreaksConfigRule(config)
            => config.state = "raised" /\ pc = "exit" /\ g.error = "ValueError"
    /\ config.state = "constructed"
            => /\ \/ config.thinking_budget = 0
                  \/ 1024 <= config.thinking_budget
                        /\ config.thinking_budget <= config.max_tokens
               /\ ~BreaksConfigRule(config)
               /\ pc # "new"

\* C27 witness: the constructor was called for the default model with a
\* thinking budget of 1023 and raised
C27_Witness ==
    /\ config.state = "raised"
    /\ config.model = DEFAULT_MODEL
    /\ config.thinking_budget = 1023
    /\ ~config.text_editor
    /\ config.max_tokens = DEFAULT_MAX_TOKENS
    /\ pc = "exit"

-----------------------------------------------------------------------------
(* Claims about the dispatcher, checked under SpecTools *)

\* the five commands of the text editor tool
KnownCommands == {"view", "str_replace", "create", "insert", "undo_edit"}

\* the last call went through the dispatcher
Dispatched == lastOp.op = "handle_tool"

\* what the operation a known command names gives for the arguments of the
\* tool input p with a path: view_directory for a directory and view_file for a
\* file, str_replace for a new_str that is not empty
OperationOf(f, reg, p) ==
    CASE p.command = "view" /\ IsDir(f, p.path) -> view_directory(f, reg, p.path, p.details)
      [] p.command = "view" /\ IsFile(f, p.path) -> view_file(f, reg, p.path, p.view_range)
      [] p.command = "str_replace" /\ p.new_str # "" ->
            str_replace(f, reg, p.path, p.old_str, p.new_str)
      [] p.command = "create" -> create_file(f, reg, p.path, p.file_text, p.overwrite)
      [] p.command = "insert" ->
            insert_text(f, reg, p.path, p.new_str, p.insert_line, p.preserve_newline)
      [] p.command = "undo_edit" -> undo_edit(f, reg, p.path)

\* the tool input p reaches an operation: it has a path, a view names a file or
\* a directory, a str_replace has a new_str
ReachesOperation(f, p) ==
    /\ p.command \in KnownCommands
    /\ ~p.null_path
    /\ p.command = "view" => Exists(f, p.path)
    /\ p.command = "str_replace" => p.new_str # ""

\* C31: a step of the dispatcher with one of the five commands leaves the file
\* system, the registry, the message and the error flag its operation gives for
\* the arguments of the tool input; with any other command, a missing one
\* included, it returns "Error: Unknown command '<command>'" with the error
\* flag and changes no file, no backup file and no registry entry
C31_DispatcherMapsCommands ==
    [][Dispatched'
        => LET p == lastOp'.input
           IN  IF p.command \in KnownCommands
               THEN ReachesOperation(fs, p)
                        => LET r == OperationOf(fs, backup_registry, p)
                           IN  /\ fs' = r.fs
                               /\ backup_registry' = r.reg
                               /\ lastOp'.is_error = r.is_error
                               /\ lastOp'.msg = r.msg
               ELSE /\ lastOp'.msg = "Error: Unknown command '" \o p.command \o "'"
                    /\ lastOp'.is_error
                    /\ lastOp'.raised = ""
                    /\ fs' = fs
                    /\ backup_registry' = backup_registry]_vars

\* C31 witness: the dispatcher was handed a tool input without a command for
\* the existing file a.html, which has no backup, and returned the error that
\* names the empty command
C31_Witness ==
    /\ Dispatched
    /\ lastOp.input.command = ""
    /\ lastOp.path = "a.html"
    /\ lastOp.pre.kind = "file"
    /\ lastOp.msg = "Error: Unknown command ''"
    /\ lastOp.is_error
    /\ fs = fs0
    /\ ~Exists(fs, "a.html.backup")
    /\ backup_registry = << >>

\* C32: a step of the dispatcher with the command str_replace and a new_str
\* that is missing or empty returns "Error: 'new_str' is required" with the
\* error flag, and changes no file, no backup file and no registry entry
C32_EmptyNewStrFailsInDispatcher ==
    [][(Dispatched' /\ lastOp'.input.command = "str_replace"
                    /\ lastOp'.input.new_str = "")
        => /\ lastOp'.is_error
           /\ lastOp'.raised = ""
           /\ lastOp'.msg = "Error: 'new_str' is required"
           /\ fs' = fs
           /\ backup_registry' = backup_registry]_vars

\* C32 witness: old_str "a" occurs once in the existing file a.html, which has
\* no backup; the str_replace command without new_str failed and neither the
\* file nor a backup was written
C32_Witness ==
    /\ Dispatched
    /\ lastOp.input.command = "str_replace"
    /\ lastOp.input.new_str = ""
    /\ lastOp.input.old_str = "a"
    /\ lastOp.pre.kind = "file"
    /\ Count(lastOp.pre.data, "a") = 1
    /\ lastOp.is_error
    /\ NodeNow = lastOp.pre
    /\ ~Exists(fs, "a.html.backup")
    /\ backup_registry = << >>

-----------------------------------------------------------------------------
(* Claims about the blocks of a response, checked under SpecBlocks *)

\* the thinking blocks of a message, in order, with text and signature
ThinkingOf(message) ==
    IF message.content.kind = "blocks"
    THEN SelectBlocks(message.content.blocks, "thinking")
    ELSE << >>

\* C33: the assistant message a step appends to the history holds the thinking
\* blocks of the response, in order, each with the thinking text and the
\* signature received; no step changes the thinking blocks of a message the
\* history keeps; and the messages of every outbound call carry the history
\* with the thinking blocks and signatures it holds
C33_ThinkingSignatureRoundTrip ==
    [][/\ (pc = "process" /\ message_history' # message_history)
            => ThinkingOf(message_history'[Len(message_history')])
                    = SelectBlocks(response.content, "thinking")
       /\ \A i \in 1..Len(message_history) :
            i <= Len(message_history')
                => ThinkingOf(message_history'[i]) = ThinkingOf(message_history[i])
       /\ pc' = "call"
            => /\ Len(kwargsMessages')
                    = Len(injected_messages') + Len(message_history') + 1
               /\ \A i \in 1..Len(message_history') :
                    ThinkingOf(kwargsMessages'[Len(injected_messages') + i])
                        = ThinkingOf(message_history'[i])]_vars

\* C33 witness: the third outbound call is about to be made; its messages carry
\* the thinking block of the first response with signature sig1 and that of
\* the second with signature sig2
C33_Witness ==
    /\ pc = "call"
    /\ g.calls = 2
    /\ Len(kwargsMessages) = 5
    /\ ThinkingOf(kwargsMessages[2]) = <<ThinkingBlock("plan", "sig1")>>
    /\ ThinkingOf(kwargsMessages[4]) = <<ThinkingBlock("plan", "sig2")>>
    /\ ThinkingOf(message_history[2]) = ThinkingOf(kwargsMessages[2])
    /\ ThinkingOf(message_history[4]) = ThinkingOf(kwargsMessages[4])

\* the blocks of the types the driver knows, in order
Recognized(blocks) ==
    SelectSeq(blocks, LAMBDA b : b.type \in {"thinking", "text", "tool_use"})

\* what the block loop gives for the recognized blocks of the response alone
RecognizedOutcome ==
    ProcessBlocks(fs, backup_registry, Recognized(response.content),
                  [saved_response |-> << >>, tool_called |-> FALSE,
                   tool_results |-> << >>])

\* C35: a step that processes a response does what it would do for the
\* response without its blocks of unknown type: the same files and registry,
\* the same saved blocks in the same order, the same tool results, the same
\* choice between continuing and returning, the same returned text, and no
\* exception
C35_UnknownBlocksIgnored ==
    [][(pc = "process" /\ RecognizedOutcome.raised = "")
        => LET r == RecognizedOutcome
           IN  /\ fs' = r.fs
               /\ backup_registry' = r.reg
               /\ g'.done # "raised"
               /\ message_history'
                    = message_history
                        \o <<Message("user", turnInput),
                             Message("assistant", BlocksContent(r.saved_response))>>
               /\ KnownBlocks(r.saved_response) = KnownBlocks(response.content)
               /\ IF r.tool_called
                  THEN pc' = "gate" /\ turnInput' = BlocksContent(r.tool_results)
                  ELSE /\ pc' = "idle"
                       /\ g'.done = "returned"
                       /\ g'.returned = _extract_response_text(r.saved_response)]_vars

\* C35 witness: the response held a text, a redacted_thinking block and a
\* tool call; the text and the tool call were saved in that order, the tool
\* result goes back, and the chain continues
C35_Witness ==
    /\ pc = "gate"
    /\ [i \in 1..Len(response.content) |-> response.content[i].type]
            = <<"text", "redacted_thinking", "tool_use">>
    /\ LET saved == message_history[Len(message_history)].content.blocks
       IN  [i \in 1..Len(saved) |-> saved[i].type] = <<"text", "tool_use">>
    /\ turnInput.kind = "blocks"
    /\ Len(turnInput.blocks) = 1
    /\ turnInput.blocks[1].id = response.content[3].id
    /\ g.done = "running"

\* os.path.join(repo_path, path), normalised: the file a path of a tool call
\* names when it is resolved relative to the repository root
ResolvedInRepo(repo_path, path) == NormPath(repo_path \o "/" \o path)

\* the files the tool calls of the response name relative to repo_path, and
\* their backups
RepoTargets ==
    LET uses == SelectBlocks(response.content, "tool_use")
    IN  UNION {{ResolvedInRepo(config.repo_path, uses[i].input.path),
                BackupPath(ResolvedInRepo(config.repo_path, uses[i].input.path))} :
               i \in 1..Len(uses)}

\* C34: a step that processes a response changes no file but those its tool
\* calls name relative to the repo_path of the client, and their backups
C34_PathsResolveAgainstRepoPath ==
    [][pc = "process"
        => \A k \in FsKeys : fs'[k] # fs[k] => k \in RepoTargets]_vars

-----------------------------------------------------------------------------
(* Claims about the backup store over several calls, checked under SpecFiles *)

\* every call of the log is a str_replace or an insert_text that names the
\* file of p, by p or by another path to it
OnlyEditsOfFileOf(log, p) ==
    \A i \in 1..Len(log) :
        log[i][1] \in {"str_replace", "insert"} /\ FileOf[log[i][2]] = FileOf[p]

\* C36: when every call of the run is a str_replace or an insert_text on one
\* existing backup-eligible file, under whatever path strings name it, only
\* the first of them writes the backup, and after each of them the backup
\* holds the content the file had at process start
C36_RegistryIdentifiesFileByAbsolutePath ==
    [][(/\ opCount' = opCount + 1
        /\ OnlyEditsOfFileOf(opLog', lastOp'.path)
        /\ fs0[FileOf[lastOp'.path]].kind = "file"
        /\ should_backup_file(lastOp'.path))
        => LET file == FileOf[lastOp'.path]
               backup == FileOf[BackupPath(lastOp'.path)]
           IN  /\ opLog # << >> => fs'[backup] = fs[backup]
               /\ fs'[backup] = fs0[file]]_vars

-----------------------------------------------------------------------------
(* Claims about refused calls, checked under SpecTools *)

\* the target of the last call, before and after the step, is the same node
TargetUntouched == fs'[FileOf[lastOp'.path]] = fs[FileOf[lastOp'.path]]

\* C37: a create_file on a path that is a directory, or that exists while
\* overwrite is false, and an insert_text on a path that does not exist, or
\* with a negative line number, return an error and leave the path as it was:
\* the same content when it existed, no file when it did not
C37_RefusedCallsLeaveTarget ==
    [][/\ (/\ lastOp'.input.command = "create"
            /\ ~lastOp'.input.null_path
            /\ \/ IsDir(fs, lastOp'.path)
               \/ Exists(fs, lastOp'.path) /\ ~lastOp'.input.overwrite)
            => lastOp'.is_error /\ TargetUntouched
       /\ (/\ lastOp'.input.command = "insert"
            /\ ~lastOp'.input.null_path
            /\ \/ ~Exists(fs, lastOp'.path)
               \/ lastOp'.input.insert_line < 0)
            => lastOp'.is_error /\ TargetUntouched]_vars

\* C37 witness: create_file was called without overwrite on the existing file
\* a.html with another text, returned an error, and the file holds what it held
C37_Witness ==
    /\ lastOp.op = "create"
    /\ ~lastOp.input.overwrite
    /\ lastOp.pre.kind = "file"
    /\ lastOp.pre.data # lastOp.input.file_text
    /\ lastOp.is_error
    /\ NodeNow = lastOp.pre

\* insert_text was called with line -1 on an existing file and refused
C37_InsertRefused ==
    /\ lastOp.op = "insert"
    /\ lastOp.input.insert_line < 0
    /\ lastOp.pre.kind = "file"
    /\ lastOp.is_error
    /\ NodeNow = lastOp.pre

\* every call of the log names the path string p
OnlyCallsNaming(log, p) == \A i \in 1..Len(log) : log[i][2] = p

C38_EditAfterUndo ==
    /\ opLog = <<<<"insert", "a.html">>, <<"undo_edit", "a.html">>,
                 <<"insert", "a.html">>>>
    /\ ~lastOp.is_error
    /\ lastOp.pre = fs0["a.html"]
    /\ fs["a.html"] # fs0["a.html"]
    /\ fs["a.html.backup"] = fs0["a.html"]

\* the step is a str_replace or insert_text call that names an existing
\* backup-eligible file and has one of the arguments the checks refuse: an
\* old_str that is empty, absent from the file or found several times, or a
\* negative line number
RefusedEdit ==
    /\ opCount' = opCount + 1
    /\ lastOp'.op \in {"str_replace", "insert"}
    /\ IsFile(fs, lastOp'.path)
    /\ should_backup_file(lastOp'.path)
    /\ \/ /\ lastOp'.op = "str_replace"
          /\ \/ lastOp'.input.old_str = ""
             \/ Count(ReadFile(fs, lastOp'.path), lastOp'.input.old_str) # 1
       \/ /\ lastOp'.op = "insert"
          /\ lastOp'.input.insert_line < 0

\* C39: a str_replace or insert_text call on an existing backup-eligible file
\* that its argument checks refuse returns an error and leaves the file as it
\* was, yet the file is registered and has a backup afterwards; when it was
\* not registered before, the backup is a copy of the file made by this call
C39_RegistersBeforeValidating ==
    [][RefusedEdit
        => LET p == lastOp'.path
               file == FileOf[lastOp'.path]
               backup == FileOf[BackupPath(lastOp'.path)]
           IN  /\ lastOp'.is_error
               /\ fs'[file] = fs[file]
               /\ p \in DOMAIN backup_registry'
               /\ fs'[backup].kind = "file"
               /\ p \notin DOMAIN backup_registry => fs'[backup] = fs[file]]_vars

\* C39 witness: str_replace was called with an old_str that occurs twice in
\* the existing file a.html, which had no backup; the call failed, the file is
\* unchanged, and the backup and the registry entry are there
C39_Witness ==
    /\ lastOp.op = "str_replace"
    /\ lastOp.pre.kind = "file"
    /\ lastOp.input.old_str = "a"
    /\ Count(lastOp.pre.data, "a") = 2
    /\ lastOp.is_error
    /\ NodeNow = lastOp.pre
    /\ fs0["a.html.backup"].kind = "none"
    /\ fs["a.html.backup"] = lastOp.pre
    /\ DOMAIN backup_registry = {"a.html"}

\* insert_text was called with line -1 on the existing file a.html, which had
\* no backup; the call failed and the backup and the registry entry are there
C39_InsertRefusedRegisters ==
    /\ lastOp.op = "insert"
    /\ lastOp.input.insert_line < 0
    /\ lastOp.pre.kind = "file"
    /\ lastOp.is_error
    /\ NodeNow = lastOp.pre
    /\ fs0["a.html.backup"].kind = "none"
    /\ fs["a.html.backup"] = lastOp.pre
    /\ "a.html" \in DOMAIN backup_registry


====
